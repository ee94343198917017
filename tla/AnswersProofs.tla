--------------------------- MODULE AnswersProofs ---------------------------
(***************************************************************************)
(* Proofs about the parts of Answers, for any number of handlers, loads     *)
(* and pictures, any commands, scores and files.                           *)
(***************************************************************************)
EXTENDS Answers, NumberLemmas

(* Each part moves alone.                                                   *)
LEMMA OnePartMoves ==
    ASSUME [Next]_vars
    PROVE  /\ E!Next \/ UNCHANGED matchVars
           /\ Q!Next \/ UNCHANGED queryVars
           /\ L!Next \/ UNCHANGED loadVars
           /\ R!Next \/ UNCHANGED pictureVars
BY DEF Next, vars

------------------------------------------------------------------------------
(* Pictures: a thread that has work left works for a handler that waits, or *)
(* has a flag to stop it.                                                   *)
Jobs == {"none", "queued", "resolving", "painting", "ended"}
Asks == {"loading", "waiting", "image", "text"}
PictureInv ==
    /\ ask \in [Pictures -> Asks] /\ job \in [Pictures -> Jobs] /\ left \in [Pictures -> Nat]
    /\ \A p \in Pictures :
          /\ ask[p] = "loading" => job[p] = "none"
          /\ job[p] \in {"queued", "resolving", "painting"} /\ kind[p] \in {"score", "match"} =>
                p \in cancel \/ ask[p] = "waiting"

LEMMA PictureInit == Init => PictureInv
BY TilesAssumption DEF Init, R!Init, PictureInv, Jobs, Asks

LEMMA EndKeeps ==
    ASSUME PictureInv, NEW p \in Pictures, NEW what \in {"image", "text"}, R!End(p, what),
           job[p] # "none", UNCHANGED <<kind, left, cancel>>
    PROVE  PictureInv'
BY DEF PictureInv, Jobs, Asks, R!End, R!Job, R!Answer

LEMMA PictureNext == ASSUME PictureInv, R!Next PROVE PictureInv'
<1> USE DEF PictureInv, Jobs, Asks, R!Answer, R!Job
<1>1. ASSUME NEW p \in Pictures, R!Loaded(p) PROVE PictureInv'
  BY <1>1 DEF R!Loaded
<1>2. ASSUME NEW p \in Pictures, R!LoadFails(p) PROVE PictureInv'
  BY <1>2 DEF R!LoadFails
<1>3. ASSUME NEW p \in Pictures, R!LockedRender(p) \/ R!StartPreview(p) PROVE PictureInv'
  BY <1>3 DEF R!LockedRender, R!StartPreview
<1>4. ASSUME NEW p \in Pictures, R!Resolve(p) PROVE PictureInv'
  <2>1. CASE p \in cancel
    BY <1>4, <2>1, EndKeeps DEF R!Resolve
  <2>2. CASE p \notin cancel
    BY <1>4, <2>2 DEF R!Resolve
  <2>3. QED
    BY <2>1, <2>2
<1>5. ASSUME NEW p \in Pictures, R!Paint(p) PROVE PictureInv'
  BY <1>5 DEF R!Paint
<1>6. ASSUME NEW p \in Pictures, R!StopPainting(p) \/ R!Breaks(p) PROVE PictureInv'
  BY <1>6, EndKeeps DEF R!StopPainting, R!Breaks
<1>7. ASSUME NEW p \in Pictures, R!RunRenderTimesOut(p) PROVE PictureInv'
  BY <1>7 DEF R!RunRenderTimesOut
<1>8. ASSUME NEW p \in Pictures, R!HandlerTimesOut(p) PROVE PictureInv'
  BY <1>8 DEF R!HandlerTimesOut
<1>9. QED
  BY <1>1, <1>2, <1>3, <1>4, <1>5, <1>6, <1>7, <1>8 DEF R!Next, R!Thread

(* A tile is painted by Paint only, and only without the flag.              *)
LEMMA PaintIsForSomeone ==
    ASSUME PictureInv, R!Next, NEW p \in Pictures, left'[p] # left[p], kind[p] \in {"score", "match"}
    PROVE  ask[p] = "waiting"
<1>1. PICK q \in Pictures : R!Paint(q)
  BY DEF R!Next, R!Thread, R!Loaded, R!LoadFails, R!LockedRender, R!StartPreview, R!Resolve,
         R!StopPainting, R!Breaks, R!RunRenderTimesOut, R!HandlerTimesOut
<1>2. q = p
  BY <1>1 DEF R!Paint, PictureInv
<1>3. QED
  BY <1>1, <1>2 DEF R!Paint, PictureInv

(* After a timeout nothing more is painted of a score or a match.           *)
THEOREM PicturesAreForSomeone == Spec => PaintsForSomeone
<1>1. PictureInv /\ [Next]_vars => PictureInv'
  <2>1. ASSUME PictureInv, UNCHANGED pictureVars PROVE PictureInv'
    BY <2>1 DEF PictureInv, pictureVars
  <2>2. QED
    BY <2>1, OnePartMoves, PictureNext
<1>2. PictureInv /\ [Next]_vars =>
         [\A p \in Pictures :
            left'[p] # left[p] /\ kind[p] \in {"score", "match"} => ask[p] = "waiting"]_(R!vars)
  BY OnePartMoves, PaintIsForSomeone DEF R!vars, pictureVars
<1>3. QED
  BY <1>1, <1>2, PictureInit, PTL DEF Spec, PaintsForSomeone, R!PaintsForSomeone

------------------------------------------------------------------------------
(* Files: who works at an image has its lock, and until the image is there  *)
(* every load of it that queues or works has the same one.                  *)
Contents == {"none", "empty", "part", "whole"}
AtWork   == {"permit", "fetch", "write", "filling", "closing"}
PcFits(via, pc) ==
    \/ pc \in {"look", "fetch", "done"}
    \/ via \in {"image", "forced"} /\ pc \in {"enter", "wait", "permit", "unlock", "forget"}
    \/ via = "image" /\ pc \in {"write", "filling", "closing", "orphan"}
    \/ via \in {"path", "bytes"} /\ pc \in {"clean", "write", "filling", "closing", "use"}
AllPcs == AtWork \union {"look", "enter", "wait", "clean", "use", "unlock", "forget", "orphan", "done"}

CacheTypeOK ==
    /\ want \in Workloads
    /\ file \in [L!Files -> Contents]
    /\ locks \in [L!Files -> Nat \union {Nil}] /\ made \in Nat
    /\ load \in [Loads -> [pc: AllPcs, lock: Nat \union {Nil},
                            got: Contents \union {"nothing", "error"}]]
    /\ \A l \in Loads : PcFits(want[l].via, load[l].pc)

Holds(l) == L!Locked(l) /\ load[l].pc \in AtWork \union {"unlock"}
LocksAreHeld ==
    /\ \A l \in Loads : Holds(l) => load[l].lock \in held
    /\ \A k, l \in Loads : Holds(k) /\ Holds(l) /\ k # l => load[k].lock # load[l].lock

Filler(k, f) == want[k] = [file |-> f, via |-> "image"] /\ load[k].pc \in {"filling", "closing"}
LoadsAreFenced ==
    \A l \in Loads : L!Locked(l) =>
        LET f == want[l].file IN
        /\ load[l].pc # "orphan"
        /\ file[f] # "whole" =>
              /\ load[l].pc \notin {"unlock", "forget"}
              /\ load[l].pc \in AtWork \union {"wait"} => load[l].lock = locks[f] /\ locks[f] # Nil
        /\ file[f] = "none" => load[l].pc \notin {"filling", "closing"}
        /\ file[f] \in {"empty", "part"} => \E k \in Loads : Filler(k, f)
        /\ file[f] = "whole" /\ want[l].via = "image" => load[l].pc \notin AtWork
CacheInv == CacheTypeOK /\ LocksAreHeld /\ (~trouble => LoadsAreFenced)

LEMMA FilesOfLoads ==
    ASSUME want \in Workloads
    PROVE  \A l \in Loads : /\ want[l] \in [file: L!Files, via: {"image", "forced", "path", "bytes"}]
                            /\ L!File(l) = want[l].file /\ L!Via(l) = want[l].via
BY FilesAssumption DEF L!File, L!Via

LEMMA CacheInit == Init => CacheInv
<1> SUFFICES ASSUME Init PROVE CacheInv
  OBVIOUS
<1>1. CacheTypeOK
  BY NilAssumption, FilesOfLoads
     DEF Init, L!Init, L!New, CacheTypeOK, AllPcs, PcFits, Contents
<1>2. \A l \in Loads : load[l].pc = "look"
  BY DEF Init, L!Init, L!New
<1>3. \A f \in L!Files : file[f] = "none"
  BY DEF Init, L!Init
<1>4. QED
  BY <1>1, <1>2, <1>3, FilesOfLoads
     DEF CacheInv, CacheTypeOK, LocksAreHeld, LoadsAreFenced, Holds, L!Locked, L!Via, AtWork

(* A load goes on; what it brought does not matter here.                    *)
Moves(l, pc) ==
    /\ load'[l].pc = pc /\ load'[l].lock = load[l].lock
    /\ \A k \in Loads \ {l} : load'[k] = load[k]

LEMMA LoadMoves ==
    ASSUME CacheTypeOK, NEW l \in Loads, NEW pc \in AllPcs, PcFits(want[l].via, pc),
           L!Goto(l, pc) \/ \E what \in Contents \union {"nothing", "error"} : L!Got(l, pc, what),
           want' = want, file' \in [L!Files -> Contents],
           locks' \in [L!Files -> Nat \union {Nil}], made' \in Nat
    PROVE  CacheTypeOK' /\ Moves(l, pc)
<1>1. load' \in [Loads -> [pc: AllPcs, lock: Nat \union {Nil}, got: Contents \union {"nothing", "error"}]]
  BY DEF CacheTypeOK, L!Goto, L!Got
<1>2. Moves(l, pc)
  BY DEF CacheTypeOK, L!Goto, L!Got, Moves
<1>3. QED
  BY <1>1, <1>2 DEF CacheTypeOK, Moves

(* The locks that are taken stay with those who hold them.                  *)
LEMMA HeldKept ==
    ASSUME CacheInv, NEW l \in Loads, NEW pc, Moves(l, pc), want' = want,
           \/ held' = held /\ (L!Locked(l) /\ pc \in AtWork \union {"unlock"} => Holds(l))
           \/ held' = held \ {load[l].lock} /\ Holds(l) /\ pc \notin AtWork \union {"unlock"}
           \/ held' = held \union {load[l].lock} /\ load[l].lock \notin held
    PROVE  LocksAreHeld'
BY DEF CacheInv, LocksAreHeld, Holds, Moves, L!Locked, L!Via

(* Without trouble the files of images are written by Write only, and a     *)
(* load that goes on, but not to a place where the lock or the file         *)
(* matters, changes nothing for the others.                                 *)
LEMMA FencedKept ==
    ASSUME CacheInv, LoadsAreFenced, NEW l \in Loads, NEW pc, Moves(l, pc), want' = want,
           \A k \in Loads : L!Locked(k) => file'[want[k].file] = file[want[k].file]
                                         /\ locks'[want[k].file] = locks[want[k].file],
           L!Locked(l) =>
              /\ pc \notin {"orphan", "filling", "closing"} /\ load[l].pc \notin {"filling", "closing"}
              /\ pc \in {"unlock", "forget"} => file[want[l].file] = "whole"
              /\ pc \in AtWork \union {"wait"} => load[l].pc \in AtWork \union {"wait"}
              /\ pc \in AtWork /\ want[l].via = "image" => file[want[l].file] # "whole"
    PROVE  LoadsAreFenced'
<1>1. \A k \in Loads : \A f : Filler(k, f) => Filler(k, f)'
  BY FilesOfLoads DEF CacheInv, CacheTypeOK, Filler, Moves, L!Locked, L!Via, AtWork
<1>2. QED
  BY <1>1, FilesOfLoads DEF CacheInv, CacheTypeOK, LoadsAreFenced, Moves, L!Locked, L!Via, AtWork

(* The two together, for steps that leave files and locks of images alone,  *)
(* or that mean trouble.                                                    *)
LEMMA CacheKept ==
    ASSUME CacheInv, NEW l \in Loads, NEW pc \in AllPcs, PcFits(want[l].via, pc),
           L!Goto(l, pc) \/ \E what \in Contents \union {"nothing", "error"} : L!Got(l, pc, what),
           UNCHANGED <<want, made>>,
           file' \in [L!Files -> Contents], locks' \in [L!Files -> Nat \union {Nil}],
           \/ held' = held /\ (L!Locked(l) /\ pc \in AtWork \union {"unlock"} => Holds(l))
           \/ held' = held \ {load[l].lock} /\ Holds(l) /\ pc \notin AtWork \union {"unlock"}
           \/ held' = held \union {load[l].lock} /\ load[l].lock \notin held,
           ~trouble' =>
              /\ ~trouble
              /\ \A k \in Loads : L!Locked(k) => file'[want[k].file] = file[want[k].file]
                                            /\ locks'[want[k].file] = locks[want[k].file]
              /\ L!Locked(l) =>
                   /\ pc \notin {"orphan", "filling", "closing"} /\ load[l].pc \notin {"filling", "closing"}
                   /\ pc \in {"unlock", "forget"} => file[want[l].file] = "whole"
                   /\ pc \in AtWork \union {"wait"} => load[l].pc \in AtWork \union {"wait"}
                   /\ pc \in AtWork /\ want[l].via = "image" => file[want[l].file] # "whole"
    PROVE  CacheInv'
<1>1. CacheTypeOK' /\ Moves(l, pc)
  BY LoadMoves DEF CacheInv, CacheTypeOK
<1>2. LocksAreHeld'
  BY <1>1, HeldKept
<1>3. ~trouble' => LoadsAreFenced'
  BY <1>1, FencedKept DEF CacheInv
<1>4. QED
  BY <1>1, <1>2, <1>3 DEF CacheInv

(* Whoever takes the lock of an image finds it there or not, but not half   *)
(* written: the one who writes it holds the lock.                           *)
LEMMA LockedIsReady ==
    ASSUME CacheInv, ~trouble, NEW l \in Loads, L!Locked(l), load[l].pc = "wait", load[l].lock \notin held
    PROVE  file[want[l].file] \in {"none", "whole"}
<1> DEFINE f == want[l].file
<1>1. want \in Workloads /\ f \in L!Files /\ file[f] \in Contents
  BY FilesOfLoads DEF CacheInv, CacheTypeOK
<1>2. SUFFICES ASSUME file[f] \in {"empty", "part"} PROVE FALSE
  BY <1>1 DEF Contents
<1>3. PICK k \in Loads : Filler(k, f)
  BY <1>2 DEF CacheInv, LoadsAreFenced
<1>4. L!Locked(k) /\ want[k].file = f /\ load[k].pc \in AtWork
  BY <1>1, <1>3, FilesOfLoads DEF Filler, L!Locked, AtWork
<1>5. load[k].lock = locks[f] /\ load[l].lock = locks[f]
  BY <1>2, <1>4 DEF CacheInv, LoadsAreFenced
<1>6. load[k].lock \in held
  BY <1>4 DEF CacheInv, LocksAreHeld, Holds
<1>7. QED
  BY <1>5, <1>6

(* The one who writes an image is alone at work at it.                      *)
LEMMA WriterIsAlone ==
    ASSUME CacheInv, ~trouble, NEW l \in Loads, want[l].via = "image", load[l].pc \in AtWork,
           NEW k \in Loads \ {l}, want[k].file = want[l].file, L!Locked(k)
    PROVE  load[k].pc \notin AtWork \union {"unlock", "forget"} /\ file[want[l].file] # "whole"
BY FilesOfLoads DEF CacheInv, CacheTypeOK, LoadsAreFenced, LocksAreHeld, Holds, L!Locked, AtWork

LEMMA CacheStep == ASSUME CacheInv, NEW l \in Loads, L!Step(l) PROVE CacheInv'
<1> USE FilesOfLoads DEF L!disk, L!fences, L!At
<1> DEFINE f == want[l].file
<1>1. CacheTypeOK /\ LocksAreHeld /\ load[l].pc \in AllPcs /\ f \in L!Files
      /\ PcFits(want[l].via, load[l].pc) /\ file[f] \in Contents
  BY DEF CacheInv, CacheTypeOK
<1>2. file \in [L!Files -> Contents] /\ locks \in [L!Files -> Nat \union {Nil}]
  BY <1>1 DEF CacheTypeOK
<1>3. L!File(l) = f /\ L!Via(l) = want[l].via /\ want[l].via \in {"image", "forced", "path", "bytes"}
      /\ (L!Locked(l) <=> want[l].via \in {"image", "forced"})
  BY <1>1 DEF CacheTypeOK, L!Locked
<1> HIDE DEF f
<1>4. CASE L!Look(l)
  <2>1. PICK pc \in {"use", "done", "enter", "clean", "fetch"} :
           /\ L!Goto(l, pc) \/ \E what \in Contents : L!Got(l, pc, what)
           /\ L!Locked(l) => pc \in {"done", "enter"}
           /\ ~L!Locked(l) => pc # "enter"
    <3>1. CASE L!Hit(l)
      BY <1>1, <1>3, <1>4, <3>1 DEF L!Look, L!Hit
    <3>2. CASE ~L!Hit(l) /\ L!Locked(l)
      <4>1. L!Goto(l, "enter")
        BY <1>3, <1>4, <3>2 DEF L!Look, L!Goto
      <4>2. QED
        BY <3>2, <4>1
    <3>3. CASE ~L!Hit(l) /\ ~L!Locked(l)
      BY <1>4, <3>3 DEF L!Look
    <3>4. QED
      BY <3>1, <3>2, <3>3
  <2>2. PcFits(want[l].via, pc) /\ pc \in AllPcs
    BY <1>3, <2>1 DEF PcFits, AllPcs, AtWork
  <2>3. UNCHANGED <<want, made, file, locks, held, trouble>> /\ load[l].pc = "look"
    BY <1>4 DEF L!Look
  <2>4. QED
    BY <1>2, <2>1, <2>2, <2>3, CacheKept DEF AtWork
<1>5. CASE L!Lock(l)
  <2>1. UNCHANGED <<want, made, file, locks, trouble>> /\ load[l].pc = "wait" /\ L!Locked(l)
        /\ load[l].lock \notin held /\ held' = held \union {load[l].lock}
    BY <1>1, <1>3, <1>5 DEF L!Lock, PcFits
  <2>2. CASE L!Hit(l)
    <3>1. L!Got(l, "unlock", file[f]) /\ file[f] # "none"
      BY <1>3, <1>5, <2>1, <2>2 DEF L!Lock, L!Hit
    <3>2. ~trouble => file[f] = "whole"
      BY <2>1, <3>1, LockedIsReady DEF f
    <3>3. PcFits(want[l].via, "unlock") /\ "unlock" \in AllPcs
      BY <1>3, <2>1 DEF PcFits, AllPcs
    <3>4. QED
      BY <1>1, <1>2, <2>1, <3>1, <3>2, <3>3, CacheKept DEF AtWork, f
  <2>3. CASE ~L!Hit(l)
    <3>1. L!Goto(l, "permit") /\ (want[l].via = "image" => file[f] = "none")
      BY <1>3, <1>5, <2>1, <2>3 DEF L!Lock, L!Hit
    <3>2. PcFits(want[l].via, "permit") /\ "permit" \in AllPcs
      BY <1>3, <2>1 DEF PcFits, AllPcs, AtWork
    <3>4. QED
      BY <1>2, <2>1, <3>1, <3>2, CacheKept DEF AtWork, f
  <2>4. QED
    BY <2>2, <2>3
<1>6. CASE L!Permit(l)
  <2>1. L!Goto(l, "fetch") /\ UNCHANGED <<want, made, file, locks, held, trouble>> /\ load[l].pc = "permit"
    BY <1>6 DEF L!Permit
  <2>2. PcFits(want[l].via, "fetch") /\ "fetch" \in AllPcs /\ L!Locked(l)
    BY <1>1, <1>3, <2>1 DEF PcFits, AllPcs, AtWork
  <2>3. want[l].via = "image" /\ ~trouble => file[f] # "whole"
    BY <2>1, <2>2 DEF CacheInv, LoadsAreFenced, AtWork, f
  <2>4. QED
    BY <1>2, <2>1, <2>2, <2>3, CacheKept DEF AtWork, Holds, f
<1>7. CASE L!CleanupOldStatus(l)
  <2>1. L!Goto(l, "fetch") /\ UNCHANGED <<want, made, locks, held, trouble>> /\ load[l].pc = "clean"
        /\ file' = [g \in L!Files |-> IF g \in Siblings(f) THEN "none" ELSE file[g]]
    BY <1>3, <1>7 DEF L!CleanupOldStatus
  <2>2. PcFits(want[l].via, "fetch") /\ "fetch" \in AllPcs /\ ~L!Locked(l)
    BY <1>1, <1>3, <2>1 DEF PcFits, AllPcs, AtWork
  <2>3. \A k \in Loads : L!Locked(k) => want[k].file \in L!Files /\ want[k].file \notin Siblings(f)
    BY <1>1, <1>3, <2>2, FilesAssumption DEF CacheTypeOK, L!Locked, f
  <2>4. file' \in [L!Files -> Contents]
    BY <1>2, <2>1 DEF Contents
  <2>5. QED
    BY <1>2, <2>1, <2>2, <2>3, <2>4, CacheKept DEF AtWork
<1>8. CASE L!FetchFails(l) \/ L!WriteFails(l)
  <2>1. PICK pc \in {"unlock", "done", "use"} :
           /\ \E what \in Contents \union {"nothing", "error"} : L!Goto(l, pc) \/ L!Got(l, pc, what)
           /\ L!Locked(l) => pc = "unlock"
           /\ ~L!Locked(l) => pc # "unlock"
    BY <1>3, <1>8 DEF L!FetchFails, L!WriteFails, L!Leave, Contents
  <2>2. UNCHANGED <<want, made, file, locks, held>> /\ trouble'
        /\ load[l].pc \in {"fetch", "write", "filling", "closing"}
    BY <1>8 DEF L!FetchFails, L!WriteFails
  <2>3. PcFits(want[l].via, pc) /\ pc \in AllPcs
    BY <1>3, <2>1 DEF PcFits, AllPcs
  <2>4. QED
    BY <1>2, <2>1, <2>2, <2>3, CacheKept DEF AtWork, Holds
<1>9. CASE L!Fetched(l)
  <2>1. UNCHANGED <<want, made, file, locks, held>> /\ load[l].pc = "fetch"
    BY <1>9 DEF L!Fetched
  <2>2. CASE want[l].via = "forced"
    <3>1. L!Got(l, "unlock", "whole") /\ trouble'
      BY <1>3, <1>9, <2>2 DEF L!Fetched
    <3>2. PcFits(want[l].via, "unlock") /\ "unlock" \in AllPcs /\ L!Locked(l)
      BY <1>3, <2>2 DEF PcFits, AllPcs
    <3>3. QED
      BY <1>2, <2>1, <3>1, <3>2, CacheKept DEF AtWork, Holds, Contents
  <2>3. CASE want[l].via # "forced"
    <3>1. L!Goto(l, "write") /\ trouble' = trouble
      BY <1>3, <1>9, <2>3 DEF L!Fetched
    <3>2. PcFits(want[l].via, "write") /\ "write" \in AllPcs
      BY <1>3, <2>3 DEF PcFits, AllPcs, AtWork
    <3>3. want[l].via = "image" /\ ~trouble => file[f] # "whole"
      BY <1>3, <2>1 DEF CacheInv, LoadsAreFenced, AtWork, f
    <3>4. QED
      BY <1>2, <1>3, <2>1, <2>3, <3>1, <3>2, <3>3, CacheKept DEF AtWork, Holds, f
  <2>4. QED
    BY <2>2, <2>3
<1>10. CASE L!Use(l)
  <2>1. L!Got(l, "done", file[f]) /\ UNCHANGED <<want, made, file, locks, held, trouble>> /\ load[l].pc = "use"
    BY <1>3, <1>10 DEF L!Use
  <2>2. PcFits(want[l].via, "done") /\ "done" \in AllPcs
    BY DEF PcFits, AllPcs
  <2>3. QED
    BY <1>1, <1>2, <2>1, <2>2, CacheKept DEF AtWork
<1>11. CASE L!Unlock(l)
  <2>1. L!Goto(l, "forget") /\ UNCHANGED <<want, made, file, locks, trouble>> /\ load[l].pc = "unlock"
        /\ held' = held \ {load[l].lock}
    BY <1>11 DEF L!Unlock
  <2>2. PcFits(want[l].via, "forget") /\ "forget" \in AllPcs /\ L!Locked(l)
    BY <1>1, <1>3, <2>1 DEF PcFits, AllPcs
  <2>3. ~trouble => file[f] = "whole"
    BY <2>1, <2>2 DEF CacheInv, LoadsAreFenced, f
  <2>4. QED
    BY <1>2, <2>1, <2>2, <2>3, CacheKept DEF AtWork, Holds, f
<1>12. CASE L!Forget(l)
  <2>1. L!Goto(l, "done") /\ UNCHANGED <<want, made, file, held, trouble>> /\ load[l].pc = "forget"
        /\ locks' = [locks EXCEPT ![f] = Nil]
    BY <1>3, <1>12 DEF L!Forget
  <2>2. PcFits(want[l].via, "done") /\ "done" \in AllPcs /\ L!Locked(l)
        /\ locks' \in [L!Files -> Nat \union {Nil}]
    BY <1>1, <1>2, <1>3, <2>1 DEF PcFits, AllPcs
  <2>3. CacheTypeOK' /\ Moves(l, "done")
    BY <1>1, <1>2, <2>1, <2>2, LoadMoves DEF CacheTypeOK
  <2>4. LocksAreHeld'
    BY <2>1, <2>3, HeldKept DEF AtWork
  <2>5. ASSUME ~trouble PROVE LoadsAreFenced'
    <3>1. file[f] = "whole" /\ LoadsAreFenced
      BY <2>1, <2>2, <2>5 DEF CacheInv, LoadsAreFenced, f
    <3>2. \A k \in Loads : \A g : Filler(k, g) => Filler(k, g)'
      BY <2>1, <2>3 DEF Filler, Moves
    <3>3. \A k \in Loads : (L!Locked(k))' = L!Locked(k) /\ want[k].file \in L!Files
      BY <1>1, <2>1 DEF CacheTypeOK, L!Locked, L!Via
    <3>4. \A g \in L!Files : file[g] # "whole" => locks'[g] = locks[g]
      BY <1>2, <2>1, <3>1
    <3>5. QED
      BY <2>1, <2>3, <3>1, <3>2, <3>3, <3>4 DEF LoadsAreFenced, Moves, AtWork
  <2>6. QED
    BY <2>1, <2>3, <2>4, <2>5 DEF CacheInv
<1>13. CASE L!Enter(l)
  <2> DEFINE new == IF locks[f] = Nil THEN made + 1 ELSE locks[f]
  <2>1. /\ UNCHANGED <<want, file, held, trouble>> /\ load[l].pc = "enter"
        /\ made' \in {made, made + 1} /\ locks' = [locks EXCEPT ![f] = new]
        /\ load' = [load EXCEPT ![l].pc = "wait", ![l].lock = new]
    BY <1>3, <1>13 DEF L!Enter
  <2>2. made \in Nat /\ new \in Nat /\ new # Nil
    BY <1>1, <1>2, NilAssumption DEF CacheTypeOK
  <2>3. PcFits(want[l].via, "wait") /\ "wait" \in AllPcs /\ L!Locked(l)
    BY <1>1, <1>3, <2>1 DEF PcFits, AllPcs
  <2>4. \A g \in L!Files : locks[g] # Nil => locks'[g] = locks[g]
    BY <1>2, <2>1
  <2> HIDE DEF new
  <2>5. CacheTypeOK'
    <3>1. locks' \in [L!Files -> Nat \union {Nil}] /\ made' \in Nat
      <4>1. made' \in Nat
        BY <2>1, <2>2
      <4>2. new \in Nat \union {Nil}
        BY <2>2
      <4>3. QED
        BY <1>2, <2>1, <4>1, <4>2, Zenon
    <3>2. load' \in [Loads -> [pc: AllPcs, lock: Nat \union {Nil}, got: Contents \union {"nothing", "error"}]]
      <4>1. load[l] \in [pc: AllPcs, lock: Nat \union {Nil}, got: Contents \union {"nothing", "error"}]
        BY <1>1 DEF CacheTypeOK
      <4>2. new \in Nat \union {Nil}
        BY <2>2
      <4>3. [load[l] EXCEPT !.pc = "wait", !.lock = new]
              \in [pc: AllPcs, lock: Nat \union {Nil}, got: Contents \union {"nothing", "error"}]
        BY <2>3, <4>1, <4>2, Zenon
      <4>4. load' = [load EXCEPT ![l] = [load[l] EXCEPT !.pc = "wait", !.lock = new]]
        BY <1>1, <2>1, Zenon DEF CacheTypeOK
      <4>5. QED
        BY <1>1, <4>3, <4>4 DEF CacheTypeOK
    <3>3. \A k \in Loads : PcFits(want[k].via, load'[k].pc)
      BY <1>1, <2>1, <2>3 DEF CacheTypeOK
    <3>4. QED
      BY <1>1, <2>1, <3>1, <3>2, <3>3 DEF CacheTypeOK
  <2>6. load'[l].pc = "wait" /\ load'[l].lock = new /\ locks'[f] = new
        /\ \A k \in Loads \ {l} : load'[k] = load[k]
    BY <1>1, <1>2, <2>1 DEF CacheTypeOK
  <2>7. LocksAreHeld'
    <3>1. \A k \in Loads : (Holds(k))' => Holds(k) /\ load'[k] = load[k]
      BY <2>1, <2>6, Zenon DEF Holds, L!Locked, L!Via, AtWork
    <3>2. ASSUME NEW k \in Loads, (Holds(k))' PROVE load'[k].lock \in held'
      <4>1. load[k].lock \in held /\ load'[k] = load[k]
        BY <1>1, <3>1, <3>2 DEF LocksAreHeld
      <4>2. held' = held
        BY <2>1
      <4>3. QED
        BY <4>1, <4>2
    <3>3. \A j, k \in Loads : (Holds(j))' /\ (Holds(k))' /\ j # k => load'[j].lock # load'[k].lock
      BY <1>1, <3>1 DEF LocksAreHeld
    <3>4. QED
      BY <3>2, <3>3 DEF LocksAreHeld
  <2>8. ASSUME ~trouble PROVE LoadsAreFenced'
    <3>1. LoadsAreFenced
      BY <2>8 DEF CacheInv
    <3>2. \A k \in Loads : \A g : Filler(k, g) => Filler(k, g)'
      BY <2>1, <2>6, Zenon DEF Filler
    <3>3. \A k \in Loads : (L!Locked(k))' = L!Locked(k) /\ want[k].file \in L!Files
      BY <1>1, <2>1 DEF CacheTypeOK, L!Locked, L!Via
    <3>4. ASSUME NEW k \in Loads, L!Locked(k), k # l, file[want[k].file] # "whole",
                 load[k].pc \in AtWork \union {"wait"}
          PROVE  load[k].lock = locks'[want[k].file] /\ locks'[want[k].file] # Nil
      BY <2>4, <3>1, <3>3, <3>4 DEF LoadsAreFenced
    <3>5. want' = want /\ file' = file
      BY <2>1
    <3>6. ASSUME NEW k \in Loads, L!Locked(k), file[want[k].file] \in {"empty", "part"}
          PROVE  \E m \in Loads : Filler(m, want[k].file)'
      BY <3>1, <3>2, <3>5, <3>6 DEF LoadsAreFenced
    <3>7. ASSUME NEW k \in Loads, L!Locked(k), k # l
          PROVE  load'[k] = load[k]
      BY <2>6, <3>7
    <3>8. QED
      BY <2>2, <2>6, <3>1, <3>3, <3>4, <3>5, <3>6, <3>7 DEF LoadsAreFenced, AtWork, f
  <2>9. QED
    BY <2>1, <2>5, <2>7, <2>8 DEF CacheInv
<1>14. CASE L!Write(l)
  <2>1. UNCHANGED <<want, made, locks, held>>
    BY <1>14 DEF L!Write
  <2>2. PICK c \in Contents : file' = [file EXCEPT ![f] = c]
    BY <1>3, <1>14 DEF L!Write, Contents
  <2>3. file' \in [L!Files -> Contents] /\ file'[f] = c /\ \A g \in L!Files \ {f} : file'[g] = file[g]
    BY <1>1, <1>2, <2>2
  <2>4. PICK pc \in {"filling", "closing", "unlock", "done", "use"} :
           /\ \E what \in Contents : L!Goto(l, pc) \/ L!Got(l, pc, what)
           /\ load[l].pc \in {"write", "filling", "closing", "orphan"}
           /\ L!Locked(l) => load[l].pc = "orphan" \/
                 <<load[l].pc, file'[f], pc>> \in {<<"write", "empty", "filling">>, <<"filling", "part", "closing">>,
                                                 <<"closing", "whole", "unlock">>}
           /\ load[l].pc = "orphan" => pc = "done"
           /\ ~L!Locked(l) => pc # "unlock"
    <3>1. CASE load[l].pc \in {"write", "filling", "orphan"}
      BY <1>1, <1>2, <1>3, <1>14, <3>1 DEF L!Write, Contents
    <3>2. CASE load[l].pc = "closing"
      BY <1>1, <1>2, <1>3, <1>14, <3>2 DEF L!Write, L!Leave, Contents
    <3>3. QED
      BY <1>14, <3>1, <3>2 DEF L!Write
  <2>5. PcFits(want[l].via, pc) /\ pc \in AllPcs
    BY <1>1, <1>3, <2>4 DEF PcFits, AllPcs, AtWork
  <2>6. CacheTypeOK' /\ Moves(l, pc)
    BY <1>1, <1>2, <2>1, <2>3, <2>4, <2>5, LoadMoves DEF CacheTypeOK
  <2>7. LocksAreHeld'
    BY <2>1, <2>4, <2>6, HeldKept DEF AtWork, Holds
  <2>8. trouble' = trouble
    BY <1>14 DEF L!Write
  <2>9. ASSUME ~trouble PROVE LoadsAreFenced'
    <3>1. LoadsAreFenced
      BY <2>9 DEF CacheInv
    <3>2. \A k \in Loads : (L!Locked(k))' = L!Locked(k) /\ want[k].file \in L!Files
      BY <1>1, <2>1 DEF CacheTypeOK, L!Locked, L!Via
    <3>3. CASE ~L!Locked(l)
      <4>1. \A k \in Loads : L!Locked(k) => want[k].file # f
        BY <1>1, <1>3, <3>3, FilesAssumption DEF CacheTypeOK, L!Locked, f
      <4>2. \A k \in Loads : L!Locked(k) => file'[want[k].file] = file[want[k].file]
        BY <2>3, <3>2, <4>1
      <4>3. QED
        BY <2>1, <2>6, <3>1, <3>3, <4>2, FencedKept
    <3>4. CASE L!Locked(l)
      <4>1. load[l].pc # "orphan" /\ want[l].via = "image"
        BY <1>1, <1>3, <2>4, <3>1, <3>4 DEF LoadsAreFenced, PcFits
      <4>2. \A k \in Loads \ {l} : want[k].file = f /\ L!Locked(k) =>
               load[k].pc \notin AtWork \union {"unlock", "forget"}
        BY <2>4, <2>9, <4>1, WriterIsAlone DEF f, AtWork
      <4>3. file[f] # "whole" /\ load[l].lock = locks[f] /\ locks[f] # Nil
        BY <2>4, <3>1, <3>4, <4>1 DEF LoadsAreFenced, AtWork, f
      <4>4. \A k \in Loads : \A g : g # f /\ Filler(k, g) => Filler(k, g)'
        BY <2>1, <2>6 DEF Filler, Moves, f
      <4>5. file'[f] # "whole" => Filler(l, f)'
        BY <1>1, <2>1, <2>4, <2>6, <3>4, <4>1 DEF Filler, Moves, f, CacheTypeOK
      <4>6. ASSUME NEW k \in Loads, L!Locked(k), want[k].file # f
            PROVE  /\ file'[want[k].file] = file[want[k].file] /\ k # l /\ load'[k] = load[k]
                   /\ file[want[k].file] \in {"empty", "part"} => \E m \in Loads : Filler(m, want[k].file)'
        <5>1. file'[want[k].file] = file[want[k].file] /\ k # l
          BY <2>3, <3>2, <4>6 DEF f
        <5>2. load'[k] = load[k]
          BY <2>6, <5>1 DEF Moves
        <5>3. ASSUME file[want[k].file] \in {"empty", "part"}
              PROVE  \E m \in Loads : Filler(m, want[k].file)'
          <6>1. PICK m \in Loads : Filler(m, want[k].file)
            BY <3>1, <4>6, <5>3 DEF LoadsAreFenced
          <6>2. QED
            BY <2>1, <4>4, <4>6, <6>1
        <5>4. QED
          BY <5>1, <5>2, <5>3
      <4>7. QED
        BY <2>1, <2>3, <2>4, <2>6, <3>1, <3>2, <4>1, <4>2, <4>3, <4>5, <4>6
           DEF LoadsAreFenced, Moves, AtWork, f
    <3>5. QED
      BY <3>3, <3>4
  <2>10. QED
    BY <2>6, <2>7, <2>8, <2>9 DEF CacheInv
<1>15. QED
  BY <1>4, <1>5, <1>6, <1>7, <1>8, <1>9, <1>10, <1>11, <1>12, <1>13, <1>14 DEF L!Step
LEMMA CacheGivesUp == ASSUME CacheInv, NEW l \in Loads, L!GiveUp(l) PROVE CacheInv'
<1>1. CacheTypeOK /\ PcFits(want[l].via, load[l].pc) /\ want[l].via \in {"image", "forced"}
      /\ want[l].file = L!File(l) /\ L!Locked(l)
  BY FilesOfLoads DEF CacheInv, CacheTypeOK, L!GiveUp, L!Locked
<1>2. PICK pc \in {"orphan", "done"} :
         /\ L!Got(l, pc, "nothing")
         /\ pc = "orphan" => load[l].pc \in {"filling", "closing"}
  BY DEF L!GiveUp
<1>3. PcFits(want[l].via, pc) /\ pc \in AllPcs
  BY <1>1, <1>2 DEF PcFits, AllPcs
<1>4. UNCHANGED <<want, made, file>> /\ trouble'
  BY DEF L!GiveUp, L!disk
<1>5. locks' \in [L!Files -> Nat \union {Nil}] /\ file \in [L!Files -> Contents]
  BY <1>1, Zenon DEF L!GiveUp, CacheTypeOK
<1>6. held' = held \/ (held' = held \ {load[l].lock} /\ Holds(l))
  BY <1>1 DEF L!GiveUp, L!At, Holds, AtWork
<1>7. QED
  BY <1>2, <1>3, <1>4, <1>5, <1>6, CacheKept DEF AtWork, Contents

LEMMA CacheNext == ASSUME CacheInv, L!Next PROVE CacheInv'
<1>1. CASE L!Age
  BY <1>1 DEF L!Age, L!fences, CacheInv, CacheTypeOK, LocksAreHeld, Holds, LoadsAreFenced, Filler,
              L!Locked, L!Via
<1>2. ASSUME NEW f \in L!Files, L!Cleanup(f) PROVE CacheInv'
  <2>1. UNCHANGED <<want, locks, made, held, load>> /\ trouble' /\ file' = [file EXCEPT ![f] = "none"]
    BY <1>2 DEF L!Cleanup, L!fences
  <2>2. CacheTypeOK'
    BY <2>1 DEF CacheInv, CacheTypeOK, Contents
  <2>3. LocksAreHeld'
    BY <2>1 DEF CacheInv, LocksAreHeld, Holds, L!Locked, L!Via
  <2>4. QED
    BY <2>1, <2>2, <2>3 DEF CacheInv
<1>3. QED
  BY <1>1, <1>2, CacheStep, CacheGivesUp DEF L!Next

LEMMA SameCardinality == \A set : L!Cardinality(set) = Cardinality(set)
BY DEF L!Cardinality, Cardinality

LEMMA CacheInvMeans == CacheInv => OneFetchPerUrl
<1> SUFFICES ASSUME CacheInv, ~trouble, NEW f \in L!Files
             PROVE  /\ Cardinality(L!Fetching(f, AtWork)) <= 1
                    /\ file[f] = "whole" => L!Fetching(f, {"permit", "fetch"}) = {}
  BY SameCardinality DEF OneFetchPerUrl, L!OneFetchPerUrl, AtWork
<1> DEFINE F == L!Fetching(f, AtWork)
<1>1. \A k \in F : /\ k \in Loads /\ want[k].via = "image" /\ want[k].file = f /\ load[k].pc \in AtWork
                   /\ L!Locked(k)
  BY FilesOfLoads DEF L!Fetching, L!Locked, CacheInv, CacheTypeOK
<1>2. file[f] = "whole" => F = {}
  BY <1>1 DEF CacheInv, LoadsAreFenced
<1>3. \A j, k \in F : j = k
  BY <1>1, WriterIsAlone
<1>4. Cardinality(F) <= 1
  <2>1. CASE F = {}
    BY <2>1, FS_EmptySet
  <2>2. ASSUME NEW k \in F PROVE Cardinality(F) <= 1
    <3>1. F = {k}
      BY <1>3
    <3>2. Cardinality({k}) = 1
      BY FS_Singleton, Zenon
    <3>3. QED
      BY <3>1, <3>2
  <2>3. QED
    BY <2>1, <2>2
<1>5. L!Fetching(f, {"permit", "fetch"}) \subseteq F
  BY DEF L!Fetching, AtWork
<1>6. QED
  BY <1>2, <1>4, <1>5

(* As long as nothing goes wrong an image is fetched by one caller, and by   *)
(* nobody once it is there.                                                 *)
THEOREM ImagesAreFetchedOnce == Spec => []OneFetchPerUrl
<1>1. CacheInv /\ [Next]_vars => CacheInv'
  <2>1. ASSUME CacheInv, UNCHANGED loadVars PROVE CacheInv'
    BY <2>1 DEF loadVars, CacheInv, CacheTypeOK, LocksAreHeld, Holds, LoadsAreFenced, Filler, L!Locked, L!Via
  <2>2. QED
    BY <2>1, OnePartMoves, CacheNext
<1>2. QED
  BY <1>1, CacheInit, CacheInvMeans, PTL DEF Spec

------------------------------------------------------------------------------
(* Queries: whom a QQ is bound to.  A lookup binds a QQ to a user only if    *)
(* no other QQ has him.                                                     *)
BoundOnce ==
    /\ bindings \in [DOMAIN Bound -> Users \union {Nil}]
    /\ \A q, r \in DOMAIN Bound : bindings[q] # Nil /\ bindings[q] = bindings[r] => q = r

LEMMA BoundInit == Init => BoundOnce
BY QueriesAssumption DEF Init, Q!Init, BoundOnce

LEMMA AutoBoundOnce ==
    ASSUME BoundOnce, NEW q \in DOMAIN Bound, NEW u \in Users, bindings' = Q!AutoBound(q, u)
    PROVE  BoundOnce'
<1>1. CASE bindings' = bindings
  BY <1>1 DEF BoundOnce
<1>2. CASE bindings' = [bindings EXCEPT ![q] = u] /\ \A r \in DOMAIN Bound : r = q \/ bindings[r] # u
  BY <1>2 DEF BoundOnce
<1>3. QED
  BY <1>1, <1>2 DEF Q!AutoBound, BoundOnce

LEMMA BoundNext == ASSUME BoundOnce, Q!Next PROVE BoundOnce'
<1>1. CASE bindings' = bindings
  BY <1>1 DEF BoundOnce
<1>2. CASE \E t \in Tasks : Q!Upstream(t)
  <2>1. PICK t \in Tasks : Q!Upstream(t)
    BY <1>2
  <2> DEFINE q == Q!About(Q!CmdOf(t))
  <2>2. bindings' = bindings \/ (bindings' = Q!AutoBound(q, Known[q]) /\ Known[q] # Nil)
    BY <2>1 DEF Q!Upstream
  <2> HIDE DEF q
  <2>3. CASE q \in DOMAIN Bound
    <3>1. Known[q] \in Users \union {Nil}
      BY <2>3, QueriesAssumption
    <3>2. QED
      BY <1>1, <2>2, <2>3, <3>1, AutoBoundOnce
  <2>4. CASE q \notin DOMAIN Bound
    <3>1. Q!AutoBound(q, Known[q]) = bindings
      BY <2>4 DEF Q!AutoBound, BoundOnce
    <3>2. QED
      BY <1>1, <2>2, <3>1
  <2>5. QED
    BY <2>3, <2>4
<1>3. CASE \E q \in DOMAIN bindings, u \in Users : Q!Bind(q, u)
  BY <1>3, AutoBoundOnce DEF Q!Bind, BoundOnce
<1>4. QED
  BY <1>1, <1>2, <1>3, Zenon DEF Q!Next, Q!Works, Q!Start, Q!NeedMap, Q!Replies, Q!AskById, Q!AskMapset, Q!WhoByName,
     Q!WhoByQq, Q!Stats, Q!AskScores, Q!OwnStats, Q!AskProfile, Q!GotId, Q!GotSet, Q!GotProfile, Q!GotScores,
     Q!ShowMap, Q!DrawCard, Q!DrawList, Q!Drawn, Q!Upload, Q!ReadMap, Q!DrawPreview, Q!DownloadAudio, Q!SendAudio,
     Q!GiveUp, Q!Land, Q!Day

(* However lookups and commands overlap, no user is bound to two QQs.       *)
THEOREM NobodyIsBoundTwice == Spec => []OneQqPerBoundUser
<1>1. BoundOnce /\ [Next]_vars => BoundOnce'
  <2>1. ASSUME BoundOnce, UNCHANGED queryVars PROVE BoundOnce'
    BY <2>1 DEF queryVars, BoundOnce
  <2>2. QED
    BY <2>1, OnePartMoves, BoundNext
<1>2. BoundOnce => OneQqPerBoundUser
  BY DEF BoundOnce, OneQqPerBoundUser, Q!OneQqPerBoundUser
<1>3. QED
  BY <1>1, <1>2, BoundInit, PTL DEF Spec

------------------------------------------------------------------------------
(* Queries: what a handler knows of itself at each place.  What it was given *)
(* while it waits for scores is the list of its own request.                *)
TaskFields == {"pc", "cmd", "user", "map", "stats", "got", "shows"}
ScoreWaits == {"waitsScores", "waitsBoth"}
Early      == {"new", "who", "upstream", "byId", "mapset", "profile", "join", "scores"}
Tidy == task = [t \in Tasks |-> task[t]] /\ \A t \in Tasks : DOMAIN task[t] = TaskFields

(* The list the table of a key is asked for.                                *)
ListOf(key) ==
    LET mine == Scores[key[2]]
        all == IF key[1] = "onMap" THEN Kept(mine, {i \in DOMAIN mine : mine[i].map = key[4]}) ELSE mine
    IN  IF Len(all) <= key[3] THEN all ELSE SubSeq(all, 1, key[3])

Whose(t) ==
    /\ IF task[t].pc = "new" THEN Q!CmdOf(t) = Nil ELSE Q!CmdOf(t) \in Commands
    /\ task[t].user \in Users \union {Nil}
    /\ task[t].pc \in {"new", "who", "upstream"} => task[t].user = Nil
    /\ task[t].pc \in {"who", "upstream"} /\ Q!CmdOf(t).kind \in Q!ScoreKinds => Q!CmdOf(t).score = Nil
    /\ task[t].pc = "upstream" => Q!CmdOf(t).target # "name"
    /\ task[t].pc \in {"byId", "waitsId"} => Q!CmdOf(t).score # Nil
    /\ task[t].pc \in {"join", "scores"} \union ScoreWaits =>
          Q!CmdOf(t).kind \in Q!ScoreKinds /\ task[t].user # Nil
Given(t) ==
    /\ task[t].pc \in Early => task[t].got = Nil
    /\ task[t].pc = "stats" /\ Q!CmdOf(t).kind \in Q!ScoreKinds /\ Q!CmdOf(t).score = Nil =>
          task[t].got = Nil /\ task[t].user # Nil
    /\ task[t].pc \in ScoreWaits /\ task[t].got # Nil /\ task[t].got.ok =>
          task[t].got.list = ListOf(Q!ScoreKey(t))
Shows(t) ==
    /\ Q!CmdOf(t) # Nil /\ Q!CmdOf(t).map # Nil => task[t].map = Q!CmdOf(t).map
    /\ task[t].pc \in {"new", "who", "upstream"} => task[t].shows = <<>>
    /\ Q!CmdOf(t) # Nil /\ (Q!CmdOf(t).kind = "onMap" \/ Q!CmdOf(t).map # Nil) =>
          \A i \in DOMAIN task[t].shows : task[t].shows[i].score.map = task[t].map
    /\ task[t].pc = "showMap" => task[t].shows[1].score.map \in Q!MapsMeant(t)
Local(t) == Whose(t) /\ Given(t) /\ Shows(t)

(* The tables: who waits for what, and what the answer will be.             *)
KeyOf(t) == IF task[t].pc = "waitsId" THEN <<"byId", Q!CmdOf(t).score>>
            ELSE IF task[t].pc = "waitsSet" THEN <<"mapset", task[t].map>>
            ELSE IF task[t].pc = "waitsProfile" THEN <<"profile", task[t].user>>
            ELSE Q!ScoreKey(t)
FlightsFit ==
    \A key \in DOMAIN flights :
       /\ DOMAIN flights[key] = {"names", "list", "waiting"}
       /\ key[1] \in Q!ScoreKinds => flights[key].list = ListOf(key)
       /\ \A t \in flights[key].waiting :
             t \in Tasks /\ task[t].pc \in Q!Waits /\ task[t].got = Nil /\ key = KeyOf(t)

(* What a chat remembers.                                                   *)
LastFits ==
    /\ DOMAIN last = {c.chat : c \in Commands}
    /\ \A h \in DOMAIN last : last[h] # Nil =>
          /\ DOMAIN last[h] = {"map", "fresh"}
          /\ \E t \in Tasks : /\ Q!CmdOf(t) # Nil /\ Q!CmdOf(t).chat = h
                              /\ last[h].map \in Q!MapsMeant(t)
QueryInv == Tidy /\ (\A t \in Tasks : Local(t)) /\ FlightsFit /\ LastFits

LEMMA QueryInit == Init => QueryInv
<1> SUFFICES ASSUME Q!Init PROVE QueryInv
  BY DEF Init
<1> USE DEF Q!Init, Q!None, Q!CmdOf
<1>1. \A t \in Tasks : task[t] = Q!None
  OBVIOUS
<1>2. Tidy
  BY <1>1 DEF Tidy, TaskFields
<1>3. ASSUME NEW t \in Tasks PROVE Local(t)
  BY <1>1 DEF Local, Whose, Given, Shows, ScoreWaits, Early
<1>4. FlightsFit /\ LastFits
  BY DEF FlightsFit, LastFits
<1>5. QED
  BY <1>2, <1>3, <1>4 DEF QueryInv

(* A handler goes on with its command.                                      *)
GoesOn(t) == Q!CmdOf(t) # Nil =>
                /\ task'[t].cmd = task[t].cmd /\ task'[t].map = task[t].map
                /\ task[t].user \in {Nil, task'[t].user}
LEMMA MeantGrows ==
    ASSUME NEW t \in Tasks, GoesOn(t), Q!CmdOf(t) # Nil
    PROVE  /\ Q!CmdOf(t)' = Q!CmdOf(t)
           /\ Q!MapsMeant(t) \subseteq (Q!MapsMeant(t))'
<1>1. task'[t].cmd = task[t].cmd /\ task'[t].map = task[t].map /\ task[t].user \in {Nil, task'[t].user}
  BY DEF GoesOn
<1>2. CASE task[t].user = Nil
  BY <1>1, <1>2 DEF Q!MapsMeant, Q!CmdOf
<1>3. CASE task[t].user = task'[t].user
  BY <1>1, <1>3 DEF Q!MapsMeant, Q!CmdOf
<1>4. QED
  BY <1>1, <1>2, <1>3 DEF Q!CmdOf

Remembers(t) ==
    \/ last' = last
    \/ \E h \in DOMAIN last : \E m \in {Nil, last[h]} : last' = [last EXCEPT ![h] = m]
    \/ /\ Q!CmdOf(t)' \in Commands
       /\ \E m \in (Q!MapsMeant(t))' : last' = [last EXCEPT ![(Q!CmdOf(t)').chat] = [map |-> m, fresh |-> TRUE]]
LEMMA LastKept ==
    ASSUME LastFits, \A s \in Tasks : GoesOn(s), NEW t \in Tasks, Remembers(t)
    PROVE  LastFits'
<1>1. ASSUME NEW h \in DOMAIN last, last[h] # Nil
      PROVE  \E s \in Tasks : /\ Q!CmdOf(s)' # Nil /\ Q!CmdOf(s)'.chat = h
                              /\ last[h].map \in (Q!MapsMeant(s))'
  <2>1. PICK s \in Tasks : Q!CmdOf(s) # Nil /\ Q!CmdOf(s).chat = h /\ last[h].map \in Q!MapsMeant(s)
    BY <1>1 DEF LastFits
  <2>2. QED
    BY <2>1, MeantGrows
<1>2. CASE last' = last
  BY <1>1, <1>2 DEF LastFits
<1>3. ASSUME NEW g \in DOMAIN last, NEW m \in {Nil, last[g]}, last' = [last EXCEPT ![g] = m] PROVE LastFits'
  BY <1>1, <1>3 DEF LastFits
<1>4. ASSUME Q!CmdOf(t)' \in Commands, NEW m \in (Q!MapsMeant(t))',
             last' = [last EXCEPT ![(Q!CmdOf(t)').chat] = [map |-> m, fresh |-> TRUE]]
      PROVE  LastFits'
  <2> DEFINE g == (Q!CmdOf(t)').chat
  <2>1. Q!CmdOf(t)' # Nil
    BY <1>4, QueriesAssumption
  <2>2. g \in DOMAIN last /\ DOMAIN last' = DOMAIN last
    BY <1>4 DEF LastFits
  <2>3. last'[g] = [map |-> m, fresh |-> TRUE] /\ \A h \in DOMAIN last : h # g => last'[h] = last[h]
    BY <1>4, <2>2
  <2> HIDE DEF g
  <2>4. last'[g].map = m /\ DOMAIN last'[g] = {"map", "fresh"}
    BY <2>3
  <2>5. \E s \in Tasks : /\ Q!CmdOf(s)' # Nil /\ Q!CmdOf(s)'.chat = g
                         /\ last'[g].map \in (Q!MapsMeant(s))'
    BY <1>4, <2>1, <2>4 DEF g
  <2>6. QED
    BY <1>1, <2>2, <2>3, <2>4, <2>5 DEF LastFits
<1>5. QED
  BY <1>2, <1>3, <1>4, Zenon DEF Remembers

LEMMA LastStays == ASSUME LastFits, \A s \in Tasks : GoesOn(s), last' = last PROVE LastFits'
<1>1. ASSUME NEW h \in DOMAIN last, last[h] # Nil
      PROVE  \E s \in Tasks : /\ Q!CmdOf(s)' # Nil /\ Q!CmdOf(s)'.chat = h
                              /\ last[h].map \in (Q!MapsMeant(s))'
  <2>1. PICK s \in Tasks : Q!CmdOf(s) # Nil /\ Q!CmdOf(s).chat = h /\ last[h].map \in Q!MapsMeant(s)
    BY <1>1 DEF LastFits
  <2>2. QED
    BY <2>1, MeantGrows
<1>2. QED
  BY <1>1 DEF LastFits

(* One handler moves.                                                       *)
Acts(t) == /\ task' = [s \in Tasks |-> task'[s]] /\ DOMAIN task'[t] = TaskFields
           /\ \A s \in Tasks : s # t => task'[s] = task[s]
           /\ GoesOn(t)
(* Places a handler may come to whatever it holds.                          *)
Late == {"done", "upload", "draws", "sends", "preview", "audio", "single", "list", "needMap", "replies"}

LEMMA SameKey ==
    ASSUME NEW t, task'[t].cmd = task[t].cmd, task'[t].user = task[t].user, task'[t].map = task[t].map
    PROVE  (Q!ScoreKey(t))' = Q!ScoreKey(t)
BY DEF Q!ScoreKey, Q!Resolved, Q!CmdOf

LEMMA LocalStays ==
    ASSUME NEW t, Local(t), task'[t] = task[t] PROVE Local(t)'
<1>1. (Q!ScoreKey(t))' = Q!ScoreKey(t)
  BY SameKey
<1>2. (Q!MapsMeant(t))' = Q!MapsMeant(t)
  BY DEF Q!MapsMeant, Q!CmdOf
<1>3. QED
  BY <1>1, <1>2 DEF Local, Whose, Given, Shows, Q!CmdOf

LEMMA TasksStay ==
    ASSUME QueryInv, UNCHANGED <<task, flights>>
    PROVE  Tidy' /\ (\A t \in Tasks : Local(t)') /\ FlightsFit' /\ (\A t \in Tasks : GoesOn(t))
<1>1. \A t \in Tasks : Local(t)'
  BY LocalStays DEF QueryInv
<1>2. FlightsFit'
  BY DEF QueryInv, FlightsFit, KeyOf, Q!CmdOf, Q!ScoreKey, Q!Resolved
<1>3. QED
  BY <1>1, <1>2 DEF QueryInv, Tidy, GoesOn

LEMMA QueryStays == ASSUME QueryInv, UNCHANGED <<task, flights, last>> PROVE QueryInv'
<1>1. LastFits'
  BY TasksStay, LastStays DEF QueryInv
<1>2. QED
  BY <1>1, TasksStay DEF QueryInv

LEMMA HandlerStep ==
    ASSUME QueryInv, NEW t \in Tasks, Acts(t), Local(t)', Remembers(t), FlightsFit'
    PROVE  QueryInv'
<1>1. Tidy'
  BY DEF QueryInv, Tidy, Acts
<1>2. \A s \in Tasks : Local(s)'
  <2>1. TAKE s \in Tasks
  <2>2. CASE s = t
    BY <2>2
  <2>3. CASE s # t
    BY <2>3, LocalStays DEF QueryInv, Acts
  <2>4. QED
    BY <2>2, <2>3
<1>3. \A s \in Tasks : GoesOn(s)
  BY DEF Acts, GoesOn
<1>4. LastFits'
  BY <1>3, LastKept DEF QueryInv
<1>5. QED
  BY <1>1, <1>2, <1>4 DEF QueryInv

(* The tables notice only a handler that waits, or stops waiting.           *)
LEMMA FlightsKept ==
    ASSUME QueryInv, NEW t \in Tasks, Acts(t), flights' = flights,
           \/ task[t].pc \notin Q!Waits \/ task[t].got # Nil
           \/ /\ task'[t].pc = task[t].pc /\ task'[t].got = task[t].got
              /\ task'[t].cmd = task[t].cmd /\ task'[t].user = task[t].user /\ task'[t].map = task[t].map
    PROVE  FlightsFit'
<1> SUFFICES ASSUME NEW key \in DOMAIN flights, NEW s \in flights[key].waiting
             PROVE  s \in Tasks /\ task'[s].pc \in Q!Waits /\ task'[s].got = Nil /\ key = KeyOf(s)'
  BY DEF FlightsFit, QueryInv
<1>1. s \in Tasks /\ task[s].pc \in Q!Waits /\ task[s].got = Nil /\ key = KeyOf(s)
  BY DEF FlightsFit, QueryInv
<1>2. /\ task'[s].pc = task[s].pc /\ task'[s].got = task[s].got
      /\ task'[s].cmd = task[s].cmd /\ task'[s].user = task[s].user /\ task'[s].map = task[s].map
  BY <1>1 DEF Acts
<1>3. KeyOf(s)' = KeyOf(s)
  BY <1>2, SameKey DEF KeyOf, Q!CmdOf
<1>4. QED
  BY <1>1, <1>2, <1>3 DEF Q!Waits

LEMMA GotoFields ==
    ASSUME Tidy, NEW t \in Tasks, NEW pc, Q!Goto(t, pc)
    PROVE  /\ Acts(t) /\ task'[t].pc = pc
           /\ \A f \in TaskFields : f # "pc" => task'[t][f] = task[t][f]
           /\ task'[t].cmd = task[t].cmd /\ task'[t].user = task[t].user /\ task'[t].map = task[t].map
           /\ task'[t].stats = task[t].stats /\ task'[t].got = task[t].got /\ task'[t].shows = task[t].shows
           /\ (Q!ScoreKey(t))' = Q!ScoreKey(t) /\ (Q!MapsMeant(t))' = Q!MapsMeant(t)
           /\ Q!CmdOf(t)' = Q!CmdOf(t)
<1>1. task' = [task EXCEPT ![t].pc = pc] /\ DOMAIN task = Tasks /\ DOMAIN task[t] = TaskFields
  BY DEF Q!Goto, Tidy
<1>2. DOMAIN task' = Tasks /\ task' = [s \in Tasks |-> task'[s]] /\ \A s \in Tasks : s # t => task'[s] = task[s]
  BY <1>1, Zenon
<1>3. task'[t] = [task[t] EXCEPT !.pc = pc]
  BY <1>1
<1>4. /\ DOMAIN task'[t] = TaskFields /\ task'[t].pc = pc
      /\ \A f \in TaskFields : f # "pc" => task'[t][f] = task[t][f]
  BY <1>1, <1>3 DEF TaskFields
<1>5. /\ task'[t].cmd = task[t].cmd /\ task'[t].user = task[t].user /\ task'[t].map = task[t].map
      /\ task'[t].stats = task[t].stats /\ task'[t].got = task[t].got /\ task'[t].shows = task[t].shows
  BY <1>4 DEF TaskFields
<1>6. (Q!ScoreKey(t))' = Q!ScoreKey(t)
  BY <1>5, SameKey
<1>7. (Q!MapsMeant(t))' = Q!MapsMeant(t) /\ Q!CmdOf(t)' = Q!CmdOf(t)
  BY <1>5 DEF Q!MapsMeant, Q!CmdOf
<1>8. QED
  BY <1>2, <1>4, <1>5, <1>6, <1>7 DEF Acts, GoesOn

LEMMA LatePlace ==
    ASSUME QueryInv, NEW t \in Tasks, NEW pc \in Late, Q!Goto(t, pc), task[t].pc # "new",
           task[t].pc \notin Q!Waits \/ task[t].got # Nil, flights' = flights, Remembers(t)
    PROVE  QueryInv'
<1>1. Tidy /\ Local(t)
  BY DEF QueryInv
<1>2. Local(t)'
  BY <1>1, GotoFields DEF Local, Whose, Given, Shows, Late, Early, ScoreWaits
<1>3. Acts(t)
  BY <1>1, GotoFields
<1>4. FlightsFit'
  BY <1>3, FlightsKept
<1>5. QED
  BY <1>2, <1>3, <1>4, HandlerStep

(* A handler asks: the table gets its key, or the one who asked before      *)
(* asked for the same list.                                                 *)
LEMMA Joins ==
    ASSUME QueryInv, NEW t \in Tasks, NEW key, NEW list, NEW pc \in Q!Waits, Q!Join(t, key, list, pc),
           task[t].pc \in Early \ {"new"},
           key = KeyOf(t)', key[1] \in Q!ScoreKinds => list = ListOf(key), Local(t)', last' = last
    PROVE  QueryInv'
<1>1. Tidy /\ Local(t) /\ FlightsFit
  BY DEF QueryInv
<1>2. Q!Goto(t, pc)
  BY DEF Q!Join
<1>3. Acts(t) /\ task'[t].pc = pc /\ task'[t].got = task[t].got
  BY <1>1, <1>2, GotoFields
<1>4. task[t].got = Nil /\ task[t].pc \notin Q!Waits
  BY <1>1 DEF Local, Given, Early, Q!Waits
<1>5. ASSUME NEW k \in DOMAIN flights, NEW s \in flights[k].waiting
      PROVE  s \in Tasks /\ task'[s].pc \in Q!Waits /\ task'[s].got = Nil /\ k = KeyOf(s)'
  <2>1. s \in Tasks /\ task[s].pc \in Q!Waits /\ task[s].got = Nil /\ k = KeyOf(s)
    BY <1>1, <1>5 DEF FlightsFit
  <2>2. task'[s] = task[s]
    BY <1>3, <1>4, <2>1 DEF Acts
  <2>3. KeyOf(s)' = KeyOf(s)
    BY <2>2, SameKey DEF KeyOf, Q!CmdOf
  <2>4. QED
    BY <2>1, <2>2, <2>3
<1>6. FlightsFit'
  <2>1. CASE key \in DOMAIN flights
    <3>1. flights' = [flights EXCEPT ![key].waiting = @ \cup {t}]
      BY <2>1 DEF Q!Join
    <3>2. DOMAIN flights' = DOMAIN flights /\ \A k \in DOMAIN flights : k # key => flights'[k] = flights[k]
      BY <3>1
    <3>3. flights'[key] = [flights[key] EXCEPT !.waiting = @ \cup {t}] /\ DOMAIN flights[key] = {"names", "list", "waiting"}
      BY <1>1, <2>1, <3>1 DEF FlightsFit
    <3>4. /\ DOMAIN flights'[key] = {"names", "list", "waiting"} /\ flights'[key].list = flights[key].list
          /\ flights'[key].waiting = flights[key].waiting \cup {t}
      BY <3>3
    <3>5. QED
      BY <1>1, <1>3, <1>4, <1>5, <3>2, <3>4 DEF FlightsFit
  <2>2. CASE key \notin DOMAIN flights
    <3>1. flights' = [k \in DOMAIN flights \cup {key} |-> IF k # key THEN flights[k]
                         ELSE [names |-> Q!Errors(key, t), list |-> list, waiting |-> {t}]]
      BY <2>2 DEF Q!Join
    <3>2. /\ DOMAIN flights' = DOMAIN flights \cup {key}
          /\ \A k \in DOMAIN flights : flights'[k] = flights[k]
          /\ flights'[key] = [names |-> Q!Errors(key, t), list |-> list, waiting |-> {t}]
      BY <2>2, <3>1
    <3>3. /\ DOMAIN flights'[key] = {"names", "list", "waiting"} /\ flights'[key].list = list
          /\ flights'[key].waiting = {t}
      BY <3>2
    <3>4. QED
      BY <1>1, <1>3, <1>4, <1>5, <3>2, <3>3 DEF FlightsFit
  <2>3. QED
    BY <2>1, <2>2
<1>7. QED
  BY <1>3, <1>6, HandlerStep DEF Remembers

LEMMA RunsACommand ==
    ASSUME QueryInv, NEW t \in Tasks, task[t].pc # "new"
    PROVE  Q!CmdOf(t) \in Commands /\ Q!CmdOf(t) # Nil
BY QueriesAssumption DEF QueryInv, Local, Whose

(* Steps whose outcome nobody else sees.                                    *)
LEMMA PlainSteps ==
    ASSUME QueryInv, NEW t \in Tasks,
           \/ Q!NeedMap(t) \/ Q!Replies(t) \/ Q!DrawCard(t) \/ Q!DrawList(t) \/ Q!Upload(t)
           \/ Q!ReadMap(t) \/ Q!DrawPreview(t) \/ Q!DownloadAudio(t) \/ Q!SendAudio(t)
    PROVE  QueryInv'
<1>1. task[t].pc \in {"needMap", "replies", "single", "list", "upload", "preview", "draws", "audio", "sends"}
  BY DEF Q!NeedMap, Q!Replies, Q!DrawCard, Q!DrawList, Q!Drawn, Q!Upload, Q!ReadMap, Q!DrawPreview,
         Q!DownloadAudio, Q!SendAudio
<1>2. flights' = flights /\ last' = last
  BY DEF Q!NeedMap, Q!Replies, Q!DrawCard, Q!DrawList, Q!Drawn, Q!Upload, Q!ReadMap, Q!DrawPreview,
         Q!DownloadAudio, Q!SendAudio
<1>3. \E pc \in Late : Q!Goto(t, pc)
  BY DEF Q!NeedMap, Q!Replies, Q!DrawCard, Q!DrawList, Q!Drawn, Q!Upload, Q!ReadMap, Q!DrawPreview,
         Q!DownloadAudio, Q!SendAudio, Q!Text, Q!Say, Late
<1>4. QED
  BY <1>1, <1>2, <1>3, LatePlace DEF Remembers, Q!Waits

LEMMA ShowMapStep == ASSUME QueryInv, NEW t \in Tasks, Q!ShowMap(t) PROVE QueryInv'
<1>1. Tidy /\ Local(t) /\ Q!CmdOf(t) \in Commands /\ task[t].pc = "showMap"
  BY RunsACommand DEF QueryInv, Q!ShowMap
<1>2. Q!Goto(t, "preview") /\ flights' = flights
  BY DEF Q!ShowMap
<1>3. task[t].shows[1].score.map \in (Q!MapsMeant(t))' /\ Q!CmdOf(t)' = Q!CmdOf(t)
  BY <1>1, <1>2, GotoFields DEF Local, Shows
<1>4. Remembers(t)
  BY <1>1, <1>3, Zenon DEF Q!ShowMap, Q!Remember, Remembers
<1>5. QED
  BY <1>1, <1>2, <1>4, LatePlace DEF Late, Q!Waits

LEMMA StartStep == ASSUME QueryInv, NEW t \in Tasks, NEW c \in Commands, Q!Start(t, c) PROVE QueryInv'
<1> DEFINE known == IF Q!Reads(c) THEN Q!Remembered(c.chat) ELSE Nil
           map   == IF c.map = Nil THEN known ELSE c.map
           r     == [Q!None EXCEPT !.pc = Q!Begins(c, known), !.cmd = c, !.map = map]
<1>1. task[t].pc = "new" /\ task' = [task EXCEPT ![t] = r] /\ flights' = flights
  BY DEF Q!Start
<1>2. Tidy /\ Local(t) /\ Q!CmdOf(t) = Nil /\ LastFits
  BY <1>1 DEF QueryInv, Local, Whose
<1>3. /\ DOMAIN r = TaskFields /\ r.pc = Q!Begins(c, known) /\ r.cmd = c /\ r.map = map
      /\ r.user = Nil /\ r.got = Nil /\ r.shows = <<>>
  <2> HIDE DEF known, map
  <2>1. QED
    BY DEF Q!None, TaskFields
<1> HIDE DEF r
<1>4. task'[t] = r /\ DOMAIN task' = Tasks /\ \A s \in Tasks : s # t => task'[s] = task[s]
  BY <1>1, <1>2 DEF Tidy
<1>5. Acts(t)
  <2>1. task' = [s \in Tasks |-> task'[s]]
    BY <1>1, <1>2 DEF Tidy
  <2>2. QED
    BY <1>2, <1>3, <1>4, <2>1 DEF Acts, GoesOn, TaskFields
<1>6. /\ task'[t].pc = Q!Begins(c, known) /\ task'[t].cmd = c /\ task'[t].user = Nil /\ task'[t].map = map
      /\ task'[t].got = Nil /\ task'[t].shows = <<>>
  BY <1>3, <1>4
<1>7. Q!Begins(c, known) \in {"who", "replies", "byId", "mapset", "preview", "needMap"}
  BY DEF Q!Begins
<1>8. /\ Q!Begins(c, known) = "byId" => c.score # Nil
      /\ Q!Begins(c, known) = "who" /\ c.kind \in Q!ScoreKinds => c.score = Nil
  BY DEF Q!Begins, Q!ScoreKinds
<1>9. c.map # Nil => map = c.map
  OBVIOUS
<1>10. map \in (Q!MapsMeant(t))' /\ Q!CmdOf(t)' = c /\ c # Nil
  BY <1>6, QueriesAssumption DEF Q!MapsMeant, Q!CmdOf
<1>11. Remembers(t)
  <2>1. CASE last' = [last EXCEPT ![c.chat] = [map |-> map, fresh |-> TRUE]]
    BY <1>10, <2>1, Zenon DEF Remembers
  <2>2. CASE Q!Forget(c.chat)
    <3>1. c.chat \in DOMAIN last
      BY <1>2 DEF LastFits
    <3>2. \E m \in {Nil, last[c.chat]} : last' = [last EXCEPT ![c.chat] = m]
      BY <2>2, Zenon DEF Q!Forget
    <3>3. QED
      BY <3>1, <3>2, Zenon DEF Remembers
  <2>3. CASE last' = last
    BY <2>3 DEF Remembers
  <2>4. QED
    BY <2>1, <2>2, <2>3 DEF Q!Start
<1> HIDE DEF known, map
<1>12. Local(t)'
  <2>1. Whose(t)'
    BY <1>6, <1>7, <1>8, <1>10 DEF Whose, Q!CmdOf, ScoreWaits
  <2>2. Given(t)'
    BY <1>6, <1>7 DEF Given, Early, ScoreWaits
  <2>3. Shows(t)'
    BY <1>6, <1>7, <1>9 DEF Shows, Q!CmdOf
  <2>4. QED
    BY <2>1, <2>2, <2>3 DEF Local
<1>13. FlightsFit'
  BY <1>1, <1>5, FlightsKept DEF Q!Waits
<1>14. QED
  BY <1>5, <1>11, <1>12, <1>13, HandlerStep

(* Whom the command is about.                                               *)
LEMMA KnowsStep ==
    ASSUME QueryInv, NEW t \in Tasks, NEW u \in Users, Q!Knows(t, u), task[t].pc \in {"who", "upstream"},
           flights' = flights, last' = last
    PROVE  QueryInv'
<1> DEFINE c  == Q!CmdOf(t)
           pc == CASE c.kind = "profile" -> "profile"
                   [] c.kind = "stats" -> "stats"
                   [] c.kind \in Q!ScoreKinds /\ c.target = "self" -> "join"
                   [] OTHER -> "stats"
<1>1. task' = [task EXCEPT ![t].user = u, ![t].pc = pc]
  BY DEF Q!Knows
<1>2. Tidy /\ Local(t) /\ c \in Commands /\ c # Nil
  BY RunsACommand DEF QueryInv
<1>3. pc \in {"profile", "stats", "join"} /\ (pc = "join" => c.kind \in Q!ScoreKinds)
  OBVIOUS
<1> HIDE DEF pc
<1>4. task' = [s \in Tasks |-> task'[s]] /\ \A s \in Tasks : s # t => task'[s] = task[s]
  BY <1>1, <1>2 DEF Tidy
<1>5. task'[t] = [task[t] EXCEPT !.user = u, !.pc = pc] /\ DOMAIN task[t] = TaskFields
  BY <1>1, <1>2 DEF Tidy
<1>6. /\ DOMAIN task'[t] = TaskFields /\ task'[t].pc = pc /\ task'[t].user = u
      /\ task'[t].cmd = task[t].cmd /\ task'[t].map = task[t].map
      /\ task'[t].got = task[t].got /\ task'[t].shows = task[t].shows
  BY <1>5 DEF TaskFields
<1>7. Acts(t)
  BY <1>2, <1>4, <1>6 DEF Acts, GoesOn, Local, Whose
<1>8. u # Nil
  BY QueriesAssumption
<1>9. Local(t)'
  BY <1>2, <1>3, <1>6, <1>8 DEF Local, Whose, Given, Shows, Q!CmdOf, Early, ScoreWaits
<1>10. FlightsFit'
  BY <1>7, FlightsKept DEF Q!Waits
<1>11. QED
  BY <1>7, <1>9, <1>10, HandlerStep DEF Remembers

(* A text ends the handler.                                                 *)
LEMMA TextEnds ==
    ASSUME QueryInv, NEW t \in Tasks, task[t].pc # "new", task[t].pc \notin Q!Waits \/ task[t].got # Nil,
           NEW what, NEW qq, Q!Say(t, what, qq), flights' = flights, Remembers(t)
    PROVE  QueryInv'
BY LatePlace DEF Q!Say, Late

LEMMA WhoSteps ==
    ASSUME QueryInv, NEW t \in Tasks, Q!WhoByName(t) \/ Q!WhoByQq(t) \/ Q!Upstream(t), BoundOnce
    PROVE  QueryInv'
<1> DEFINE c == Q!CmdOf(t)
           q == Q!About(c)
<1>1. /\ task[t].pc \in {"who", "upstream"} /\ flights' = flights /\ last' = last
      /\ c \in Commands /\ Tidy /\ Local(t)
  BY RunsACommand DEF Q!WhoByName, Q!WhoByQq, Q!Upstream, QueryInv
<1>2. ASSUME NEW u \in Users, Q!Knows(t, u) PROVE QueryInv'
  BY <1>1, <1>2, KnowsStep
<1>3. CASE Q!Text(t)
  BY <1>1, <1>3, TextEnds DEF Q!Text, Remembers, Q!Waits
<1>4. CASE Q!WhoByName(t)
  <2>1. c.at \in Users
    BY <1>1, <1>4, QueriesAssumption DEF Q!WhoByName
  <2>2. QED
    BY <1>2, <1>3, <1>4, <2>1 DEF Q!WhoByName
<1>5. CASE Q!WhoByQq(t)
  <2>1. q \in DOMAIN Bound
    BY <1>1, <1>5, QueriesAssumption DEF Q!WhoByQq
  <2>2. bindings[q] \in Users \union {Nil}
    BY <2>1 DEF BoundOnce
  <2>3. CASE bindings[q] # Nil /\ Q!Knows(t, bindings[q])
    BY <1>2, <2>2, <2>3
  <2>4. CASE Q!Goto(t, "upstream")
    <3>1. task[t].pc = "who" /\ c.target # "name"
      BY <1>5 DEF Q!WhoByQq
    <3>2. Acts(t) /\ Local(t)'
      BY <1>1, <2>4, <3>1, GotoFields DEF Local, Whose, Given, Shows, Early, ScoreWaits
    <3>3. FlightsFit'
      BY <1>1, <3>2, FlightsKept DEF Q!Waits
    <3>4. QED
      BY <1>1, <3>2, <3>3, HandlerStep DEF Remembers
  <2>5. QED
    BY <1>3, <1>5, <2>3, <2>4 DEF Q!WhoByQq
<1>6. CASE Q!Upstream(t)
  <2>1. CASE Known[q] # Nil /\ Q!Knows(t, Known[q])
    <3>1. q \in DOMAIN Bound
      BY <1>1, <1>6, QueriesAssumption DEF Q!Upstream, Local, Whose
    <3>2. Known[q] \in Users
      BY <2>1, <3>1, QueriesAssumption
    <3>3. QED
      BY <1>2, <2>1, <3>2
  <2>2. QED
    BY <1>3, <1>6, <2>1 DEF Q!Upstream
<1>7. QED
  BY <1>4, <1>5, <1>6

LEMMA StatsStep == ASSUME QueryInv, NEW t \in Tasks, Q!Stats(t) PROVE QueryInv'
<1>1. /\ task[t].pc = "stats" /\ flights' = flights /\ last' = last
      /\ Q!CmdOf(t) \in Commands /\ Q!CmdOf(t) # Nil /\ Tidy /\ Local(t)
  BY RunsACommand DEF Q!Stats, QueryInv
<1>2. ASSUME NEW qq, Q!Say(t, "text", qq) PROVE QueryInv'
  BY <1>1, <1>2, TextEnds DEF Remembers, Q!Waits
<1>3. CASE Q!Goto(t, "single")
  BY <1>1, <1>3, LatePlace DEF Remembers, Q!Waits, Late
<1>4. CASE Q!Goto(t, "scores") /\ Q!CmdOf(t).kind \in Q!ScoreKinds /\ Q!CmdOf(t).score = Nil
  <2>1. Acts(t) /\ Local(t)'
    BY <1>1, <1>4, GotoFields DEF Local, Whose, Given, Shows, Early, ScoreWaits
  <2>2. FlightsFit'
    BY <1>1, <2>1, FlightsKept DEF Q!Waits
  <2>3. QED
    BY <1>1, <2>1, <2>2, HandlerStep DEF Remembers
<1>5. QED
  BY <1>2, <1>3, <1>4 DEF Q!Stats

(* The key of a request for scores tells the list.                          *)
LEMMA SameKept == \A s, K : Q!P!Kept(s, K) = Kept(s, K)
BY DEF Q!P!Kept, Q!P!Arranged, Q!P!InOrder, Q!P!Upward, Q!P!Cardinality,
       Kept, Arranged, InOrder, Upward, Cardinality

LEMMA ResolvedIs ==
    ASSUME NEW t \in Tasks, Q!CmdOf(t) \in Commands
    PROVE  /\ \A f \in CommandFields : f # "map" => Q!Resolved(t)[f] = Q!CmdOf(t)[f]
           /\ Q!Resolved(t).map = IF Q!CmdOf(t).kind = "onMap" THEN task[t].map ELSE Q!CmdOf(t).map
<1>1. DOMAIN Q!CmdOf(t) = CommandFields
  BY QueriesAssumption
<1>2. QED
  BY <1>1 DEF Q!Resolved, CommandFields

LEMMA TableIsKind ==
    ASSUME NEW c, c.kind \in Q!ScoreKinds PROVE Q!P!SpecOf(c).table = c.kind
BY DEF Q!ScoreKinds, Q!P!SpecOf, Q!P!Pass, Q!P!Recent, Q!P!Best, Q!P!TodayBest, Q!P!Audio, Q!P!Preview, Q!P!OnMap

LEMMA ListedIs ==
    ASSUME NEW t \in Tasks, Q!CmdOf(t) \in Commands, Q!CmdOf(t).kind \in Q!ScoreKinds
    PROVE  /\ Q!Listed(t) = ListOf(Q!ScoreKey(t))
           /\ Q!ScoreKey(t)[1] = Q!CmdOf(t).kind /\ Q!ScoreKey(t)[2] = task[t].user
<1> DEFINE r == Q!Resolved(t)
<1>1. r.kind = Q!CmdOf(t).kind
  BY ResolvedIs DEF CommandFields
<1>2. Q!ScoreKey(t) = <<r.kind, task[t].user, Q!P!ApiLimit(r), IF r.kind = "onMap" THEN task[t].map ELSE Nil>>
  BY <1>1, TableIsKind DEF Q!ScoreKey
<1> DEFINE key == Q!ScoreKey(t)
           mine == Scores[task[t].user]
           K == {i \in DOMAIN mine : mine[i].map = task[t].map}
<1>3. /\ key[1] = Q!CmdOf(t).kind /\ key[2] = task[t].user /\ key[3] = Q!P!ApiLimit(r)
      /\ key[1] = "onMap" => key[4] = task[t].map
  BY <1>1, <1>2
<1>4. Q!P!Kept(mine, K) = Kept(mine, K)
  BY SameKept
<1> HIDE DEF r, key
<1>5. Q!Listed(t) = ListOf(key)
  <2>1. CASE Q!CmdOf(t).kind = "onMap"
    BY <1>3, <1>4, <2>1, Zenon DEF Q!Listed, ListOf, r
  <2>2. CASE Q!CmdOf(t).kind # "onMap"
    BY <1>3, <2>2 DEF Q!Listed, ListOf, r
  <2>3. QED
    BY <2>1, <2>2
<1>6. QED
  BY <1>3, <1>5 DEF key

LEMMA AskSteps ==
    ASSUME QueryInv, NEW t \in Tasks,
           Q!AskById(t) \/ Q!AskMapset(t) \/ Q!AskProfile(t) \/ Q!AskScores(t)
    PROVE  QueryInv'
<1>1. Tidy /\ Local(t) /\ last' = last /\ Q!CmdOf(t) \in Commands /\ Q!CmdOf(t) # Nil
  BY RunsACommand DEF Q!AskById, Q!AskMapset, Q!AskProfile, Q!AskScores, QueryInv
<1>2. CASE Q!AskById(t)
  <2>1. task[t].pc = "byId" /\ Q!Join(t, <<"byId", Q!CmdOf(t).score>>, <<>>, "waitsId")
    BY <1>2 DEF Q!AskById
  <2>2. Q!Goto(t, "waitsId")
    BY <2>1 DEF Q!Join
  <2>3. Local(t)' /\ <<"byId", Q!CmdOf(t).score>> = KeyOf(t)'
    BY <1>1, <2>1, <2>2, GotoFields DEF Local, Whose, Given, Shows, Early, ScoreWaits, KeyOf
  <2>4. QED
    BY <1>1, <2>1, <2>3, Joins DEF Q!Waits, Early, Q!ScoreKinds
<1>3. CASE Q!AskMapset(t)
  <2>1. task[t].pc = "mapset" /\ Q!Join(t, <<"mapset", task[t].map>>, <<>>, "waitsSet")
    BY <1>3 DEF Q!AskMapset
  <2>2. Q!Goto(t, "waitsSet")
    BY <2>1 DEF Q!Join
  <2>3. Local(t)' /\ <<"mapset", task[t].map>> = KeyOf(t)'
    BY <1>1, <2>1, <2>2, GotoFields DEF Local, Whose, Given, Shows, Early, ScoreWaits, KeyOf
  <2>4. QED
    BY <1>1, <2>1, <2>3, Joins DEF Q!Waits, Early, Q!ScoreKinds
<1>4. CASE Q!AskProfile(t)
  <2>1. task[t].pc = "profile" /\ Q!Join(t, <<"profile", task[t].user>>, <<>>, "waitsProfile")
    BY <1>4 DEF Q!AskProfile
  <2>2. Q!Goto(t, "waitsProfile")
    BY <2>1 DEF Q!Join
  <2>3. Local(t)' /\ <<"profile", task[t].user>> = KeyOf(t)'
    BY <1>1, <2>1, <2>2, GotoFields DEF Local, Whose, Given, Shows, Early, ScoreWaits, KeyOf
  <2>4. QED
    BY <1>1, <2>1, <2>3, Joins DEF Q!Waits, Early, Q!ScoreKinds
<1>5. CASE Q!AskScores(t)
  <2>1. PICK pc \in ScoreWaits : Q!Join(t, Q!ScoreKey(t), Q!Listed(t), pc)
    BY <1>5 DEF Q!AskScores, ScoreWaits
  <2>2. Q!Goto(t, pc) /\ task[t].pc \in {"scores", "join"}
    BY <1>5, <2>1 DEF Q!Join, Q!AskScores
  <2>3. Local(t)'
    BY <1>1, <2>2, GotoFields DEF Local, Whose, Given, Shows, Early, ScoreWaits
  <2>4. KeyOf(t)' = Q!ScoreKey(t)
    BY <1>1, <2>2, GotoFields DEF KeyOf, ScoreWaits
  <2>5. Q!Listed(t) = ListOf(Q!ScoreKey(t))
    BY <1>1, <2>2, ListedIs DEF Local, Whose
  <2>6. QED
    BY <1>1, <2>1, <2>2, <2>3, <2>4, <2>5, Joins DEF Q!Waits, Early, ScoreWaits
<1>6. QED
  BY <1>2, <1>3, <1>4, <1>5

LEMMA OwnStatsStep == ASSUME QueryInv, NEW t \in Tasks, Q!OwnStats(t) PROVE QueryInv'
<1>1. /\ task[t].pc = "waitsBoth" /\ flights' = flights /\ last' = last
      /\ Q!CmdOf(t) \in Commands /\ Tidy /\ Local(t)
  BY RunsACommand DEF Q!OwnStats, QueryInv
<1>2. PICK r : task' = [task EXCEPT ![t].stats = r]
  BY Zenon DEF Q!OwnStats
<1>3. /\ task' = [s \in Tasks |-> task'[s]] /\ \A s \in Tasks : s # t => task'[s] = task[s]
      /\ task'[t] = [task[t] EXCEPT !.stats = r] /\ DOMAIN task[t] = TaskFields
  BY <1>1, <1>2 DEF Tidy
<1>4. /\ DOMAIN task'[t] = TaskFields /\ task'[t].pc = task[t].pc /\ task'[t].user = task[t].user
      /\ task'[t].cmd = task[t].cmd /\ task'[t].map = task[t].map
      /\ task'[t].got = task[t].got /\ task'[t].shows = task[t].shows
  BY <1>3 DEF TaskFields
<1>5. Acts(t)
  BY <1>3, <1>4 DEF Acts, GoesOn
<1>6. (Q!ScoreKey(t))' = Q!ScoreKey(t)
  BY <1>4, SameKey
<1>7. Local(t)'
  BY <1>1, <1>4, <1>6 DEF Local, Whose, Given, Shows, Q!CmdOf, ScoreWaits, Early
<1>8. FlightsFit'
  BY <1>1, <1>4, <1>5, FlightsKept
<1>9. QED
  BY <1>1, <1>5, <1>7, <1>8, HandlerStep DEF Remembers

------------------------------------------------------------------------------
(* Queries: the rows shown are scores of the list, and of the map asked for. *)
RowsOf(W) == [rank : Int, score : W]

LEMMA NoneEnriched == \A rows : Q!P!Enriched(rows, <<>>) = rows
<1> TAKE rows
<1> DEFINE Eq(f) == f = [n \in 0 .. Len(<<>>) |->
                           IF n = 0 THEN rows ELSE [f[n - 1] EXCEPT ![<<>>[n]].score.pp = TRUE]]
           h == CHOOSE f : Eq(f)
<1>1. Q!P!Enriched(rows, <<>>) = h[Len(<<>>)]
  BY DEF Q!P!Enriched
<1>2. Len(<<>>) = 0 /\ 0 .. Len(<<>>) = {0}
  OBVIOUS
<1>3. Eq([n \in 0 .. Len(<<>>) |-> rows])
  BY <1>2
<1>4. Eq(h)
  BY <1>3
<1> HIDE DEF h
<1>5. h[0] = rows
  BY <1>2, <1>4
<1>6. QED
  BY <1>1, <1>2, <1>5

LEMMA PartOfRows ==
    ASSUME NEW T, NEW s \in Seq(T), NEW a \in Nat \ {0}, NEW b \in Int, b <= Len(s)
    PROVE  SubSeq(s, a, b) \in Seq(T)
OBVIOUS

LEMMA KeptRows ==
    ASSUME NEW T, NEW s \in Seq(T), NEW K \in SUBSET DOMAIN s
    PROVE  Q!P!Kept(s, K) \in Seq(T)
BY SameKept, KeptSeq

LEMMA OfMapRows ==
    ASSUME NEW c, NEW W, NEW s \in Seq(RowsOf(W))
    PROVE  Q!P!OfMap(c, s) \in Seq(RowsOf({w \in W : c.map # Nil => w.map = c.map}))
<1> DEFINE V == {w \in W : c.map # Nil => w.map = c.map}
           K == {i \in DOMAIN s : s[i].score.map = c.map}
<1>1. CASE c.map = Nil
  <2>1. V = W
    BY <1>1
  <2>2. QED
    BY <1>1, <2>1, Zenon DEF Q!P!OfMap
<1>2. CASE c.map # Nil
  <2>1. Q!P!OfMap(c, s) = Kept(s, K)
    BY <1>2, SameKept DEF Q!P!OfMap
  <2>2. K \in SUBSET DOMAIN s /\ \A n \in K : s[n].score.map = c.map
    OBVIOUS
  <2> HIDE DEF K
  <2>3. ASSUME NEW n \in K PROVE s[n] \in RowsOf(V)
    <3>1. s[n] \in RowsOf(W)
      BY <2>2
    <3>2. s[n] = [rank |-> s[n].rank, score |-> s[n].score] /\ s[n].rank \in Int /\ s[n].score \in W
      BY <3>1 DEF RowsOf
    <3>3. QED
      BY <2>2, <3>2 DEF RowsOf
  <2>4. Kept(s, K) \in Seq(RowsOf(W)) /\ \A i \in DOMAIN Kept(s, K) : \E n \in K : Kept(s, K)[i] = s[n]
    BY <2>2, KeptSeq
  <2> DEFINE k == Kept(s, K)
  <2> HIDE DEF k
  <2>5. k \in Seq(RowsOf(W)) /\ \A i \in DOMAIN k : k[i] \in RowsOf(V)
    BY <2>3, <2>4 DEF k
  <2> HIDE DEF V
  <2>6. k \in Seq(RowsOf(V))
    BY <2>5
  <2>7. QED
    BY <2>1, <2>6 DEF k, V
<1>3. QED
  BY <1>1, <1>2

LEMMA MatchingRows ==
    ASSUME NEW c, c.filter \in {"none", "other", "pp"}, NEW T, NEW s \in Seq(T)
    PROVE  Q!P!Matching(c, s) \in Seq(T)
<1>1. CASE c.filter = "none"
  BY <1>1 DEF Q!P!Matching
<1>2. CASE c.filter = "other"
  BY <1>2, KeptRows DEF Q!P!Matching
<1>3. CASE c.filter = "pp"
  BY <1>3, KeptRows DEF Q!P!Matching
<1>4. QED
  BY <1>1, <1>2, <1>3

Refusals == {"empty", "noMatch", "outOfRange"}
Renders  == {"list", "single", "audio", "preview"}

LEMMA ShownRows ==
    ASSUME NEW c, c.kind \in Q!ScoreKinds, c.filter \in {"none", "other", "pp"},
           c.limit \in Nat \ {0}, c.end \in Nat \union {Nil},
           NEW W, NEW scores \in Seq(W)
    PROVE  /\ Q!P!Shown(c, scores, <<>>).say \in Refusals \union Renders
           /\ Q!P!Shown(c, scores, <<>>).say = "preview" => 1 \in DOMAIN Q!P!Shown(c, scores, <<>>).rows
           /\ \A i \in DOMAIN Q!P!Shown(c, scores, <<>>).rows :
                 Q!P!Shown(c, scores, <<>>).rows[i].score \in {w \in W : c.map # Nil => w.map = c.map}
           /\ Q!P!PostProcess(c, scores) \in Seq(W)
<1> DEFINE V     == {w \in W : c.map # Nil => w.map = c.map}
           kept  == Q!P!PostProcess(c, scores)
           rows  == Q!P!Indexed(kept)
           chosen  == Q!P!Matching(c, Q!P!OfMap(c, rows))
           shown == Q!P!Shown(c, scores, <<>>)
<1>1. kept \in Seq(W)
  BY KeptRows DEF Q!P!PostProcess
<1> HIDE DEF kept
<1>2. rows \in Seq(RowsOf(W))
  <2>1. \A i \in DOMAIN kept : [rank |-> i - 1, score |-> kept[i]] \in RowsOf(W)
    BY <1>1 DEF RowsOf
  <2>2. rows = [i \in 1..Len(kept) |-> [rank |-> i - 1, score |-> kept[i]]]
    BY <1>1 DEF Q!P!Indexed
  <2>3. QED
    BY <1>1, <2>1, <2>2
<1> HIDE DEF rows
<1>3. chosen \in Seq(RowsOf(V))
  <2>1. Q!P!OfMap(c, rows) \in Seq(RowsOf(V))
    BY <1>2, OfMapRows
  <2>2. QED
    BY <2>1, MatchingRows
<1>4. shown = CASE kept = <<>> -> Q!P!Refuse("empty")
                [] kept # <<>> /\ chosen = <<>> -> Q!P!Refuse("noMatch")
                [] chosen # <<>> /\ c.end # Nil -> Q!P!Range0(c, chosen)
                [] chosen # <<>> /\ c.end = Nil /\ c.all -> Q!P!BareList(c, chosen)
                [] chosen # <<>> /\ c.end = Nil /\ ~c.all -> Q!P!One(c, chosen)
  BY NoneEnriched DEF Q!P!Shown, kept, rows
<1> HIDE DEF chosen, V, shown
<1> DEFINE Sound(x) == /\ x.say \in Refusals \union Renders /\ x.rows \in Seq(RowsOf(V))
                       /\ x.say = "preview" => 1 \in DOMAIN x.rows
<1>5. \A why \in Refusals : Sound(Q!P!Refuse(why))
  BY DEF Q!P!Refuse, Refusals
<1>6. ASSUME c.end # Nil PROVE Sound(Q!P!Range0(c, chosen))
  <2> DEFINE end == IF c.end < Len(chosen) THEN c.end ELSE Len(chosen)
             b == IF end < c.limit - 1 THEN Len(chosen) ELSE end
  <2>1. SubSeq(chosen, c.limit, b) \in Seq(RowsOf(V))
    BY <1>3, <1>6, PartOfRows
  <2>2. Q!P!Range0(c, chosen) = IF c.limit - 1 >= Len(chosen) THEN Q!P!Refuse("outOfRange")
                              ELSE [say |-> "list", rows |-> SubSeq(chosen, c.limit, b)]
    BY DEF Q!P!Range0, Q!P!Smaller
  <2>3. QED
    BY <1>5, <2>1, <2>2 DEF Renders, Refusals
<1>7. Sound(Q!P!BareList(c, chosen))
  <2> DEFINE b == IF c.limit < Len(chosen) THEN c.limit ELSE Len(chosen)
  <2>1. SubSeq(chosen, 1, b) \in Seq(RowsOf(V))
    BY <1>3, PartOfRows
  <2>2. QED
    BY <1>3, <2>1 DEF Q!P!BareList, Q!P!Smaller, Renders
<1>8. Sound(Q!P!One(c, chosen))
  <2>1. CASE c.limit - 1 >= Len(chosen)
    BY <1>5, <2>1 DEF Q!P!One, Refusals
  <2>2. CASE c.limit - 1 < Len(chosen)
    <3>1. chosen[c.limit] \in RowsOf(V)
      BY <1>3, <2>2
    <3>2. Q!P!SpecOf(c).render \in Renders
      BY DEF Q!ScoreKinds, Q!P!SpecOf, Q!P!Pass, Q!P!Recent, Q!P!Best, Q!P!TodayBest, Q!P!Audio, Q!P!Preview,
             Q!P!OnMap, Q!P!Card, Renders
    <3>3. Q!P!One(c, chosen) = [say |-> Q!P!SpecOf(c).render, rows |-> <<chosen[c.limit]>>]
      BY <1>3, <2>2 DEF Q!P!One
    <3>4. QED
      BY <3>1, <3>2, <3>3
  <2>3. QED
    BY <1>3, <2>1, <2>2
<1> HIDE DEF Sound
<1>9. Sound(shown)
  BY <1>3, <1>4, <1>5, <1>6, <1>7, <1>8 DEF Refusals
<1>10. \A i \in DOMAIN shown.rows : shown.rows[i].score \in V
  <2>1. \A i \in DOMAIN shown.rows : shown.rows[i] \in RowsOf(V)
    BY <1>9 DEF Sound
  <2>2. \A w \in RowsOf(V) : w.score \in V
    BY DEF RowsOf
  <2>3. QED
    BY <2>1, <2>2
<1>11. QED
  BY <1>1, <1>9, <1>10 DEF Sound, V, shown, kept

(* The list of a key is a part of the scores of its player.                 *)
LEMMA ListRows ==
    ASSUME NEW t \in Tasks, Q!CmdOf(t) \in Commands, Q!CmdOf(t).kind \in Q!ScoreKinds,
           task[t].user \in Users
    PROVE  LET mine == Scores[task[t].user] IN
           ListOf(Q!ScoreKey(t)) \in
              Seq({w \in {mine[i] : i \in DOMAIN mine} : Q!CmdOf(t).kind = "onMap" => w.map = task[t].map})
<1> DEFINE mine == Scores[task[t].user]
           r == Q!Resolved(t)
           key == Q!ScoreKey(t)
           A == {mine[i] : i \in DOMAIN mine}
           B == {w \in A : Q!CmdOf(t).kind = "onMap" => w.map = task[t].map}
           K == {i \in DOMAIN mine : mine[i].map = task[t].map}
           all == IF Q!CmdOf(t).kind = "onMap" THEN Kept(mine, K) ELSE mine
<1>1. \A f \in {"kind", "limit", "end", "filter"} : r[f] = Q!CmdOf(t)[f]
  BY ResolvedIs DEF CommandFields
<1> HIDE DEF r
<1>2. key = <<r.kind, task[t].user, Q!P!ApiLimit(r), IF r.kind = "onMap" THEN task[t].map ELSE Nil>>
  BY <1>1, TableIsKind DEF Q!ScoreKey, r
<1>3. /\ key[1] = Q!CmdOf(t).kind /\ key[2] = task[t].user /\ key[3] = Q!P!ApiLimit(r)
      /\ key[1] = "onMap" => key[4] = task[t].map
  BY <1>1, <1>2
<1> HIDE DEF key
<1>4. Q!P!ApiLimit(r) \in Nat
  <2>1. Q!P!SpecOf(r).ask \in {Nil, FetchLimit}
    BY <1>1 DEF Q!ScoreKinds, Q!P!SpecOf, Q!P!Pass, Q!P!Recent, Q!P!Best, Q!P!TodayBest, Q!P!Audio, Q!P!Preview, Q!P!OnMap
  <2>2. r.limit \in Nat /\ r.end \in Nat \union {Nil} /\ FetchLimit \in Nat
    BY <1>1, QueriesAssumption
  <2>3. QED
    BY <2>1, <2>2 DEF Q!P!ApiLimit, Q!P!Larger
<1>5. mine \in Seq(A)
  BY QueriesAssumption
<1>6. all \in Seq(B)
  <2>1. CASE Q!CmdOf(t).kind = "onMap"
    <3>1. K \in SUBSET DOMAIN mine /\ \A n \in K : mine[n] \in B
      BY <2>1
    <3> HIDE DEF K, mine, A
    <3>2. Kept(mine, K) \in Seq(A) /\ \A i \in DOMAIN Kept(mine, K) : \E n \in K : Kept(mine, K)[i] = mine[n]
      BY <1>5, <3>1, KeptSeq
    <3> DEFINE k == Kept(mine, K)
    <3> HIDE DEF k, B
    <3>3. k \in Seq(A) /\ \A i \in DOMAIN k : k[i] \in B
      BY <3>1, <3>2 DEF k
    <3>4. k \in Seq(B)
      BY <3>3
    <3>5. QED
      BY <2>1, <3>4 DEF k
  <2>2. CASE Q!CmdOf(t).kind # "onMap"
    <3>1. B = A
      BY <2>2
    <3>2. QED
      BY <1>5, <2>2, <3>1
  <2>3. QED
    BY <2>1, <2>2
<1>7. ListOf(key) = IF Len(all) <= Q!P!ApiLimit(r) THEN all ELSE SubSeq(all, 1, Q!P!ApiLimit(r))
  BY <1>3, Zenon DEF ListOf
<1> HIDE DEF all, B
<1>8. ListOf(key) \in Seq(B)
  BY <1>4, <1>6, <1>7, PartOfRows
<1>9. QED
  BY <1>8 DEF B, key

------------------------------------------------------------------------------
(* Queries: answers arrive, and what is done with them.                     *)
LEMMA GotSteps ==
    ASSUME QueryInv, NEW t \in Tasks, Q!GotId(t) \/ Q!GotSet(t) \/ Q!GotProfile(t)
    PROVE  QueryInv'
<1> DEFINE c == Q!CmdOf(t)
<1>1. /\ task[t].pc \in {"waitsId", "waitsSet", "waitsProfile"} /\ task[t].got # Nil /\ flights' = flights
      /\ c \in Commands /\ c # Nil /\ Tidy /\ Local(t)
  BY RunsACommand DEF Q!GotId, Q!GotSet, Q!GotProfile, QueryInv
<1>2. CASE Q!Failed(t)
  BY <1>1, <1>2, TextEnds DEF Q!Failed, Remembers
<1>3. ASSUME NEW pc, Q!Goto(t, pc), NEW m \in Q!MapsMeant(t), Q!Remember(t, m) PROVE Remembers(t)
  BY <1>1, <1>3, GotoFields, Zenon DEF Q!Remember, Remembers
<1>4. ASSUME Q!GotId(t), ~Q!Failed(t) PROVE QueryInv'
  <2>1. task[t].pc = "waitsId" /\ c.score # Nil
    BY <1>1, <1>4 DEF Q!GotId, Local, Whose
  <2>2. Q!Remember(t, MapOf[c.score]) /\ MapOf[c.score] \in Q!MapsMeant(t)
    BY <1>1, <1>4, <2>1 DEF Q!GotId, Q!MapsMeant
  <2>3. PICK pc \in {"audio", "preview", "stats", "done"} : Q!Goto(t, pc)
    BY <1>1, <1>4 DEF Q!GotId, Q!Text, Q!Say
  <2>4. Remembers(t)
    BY <1>3, <2>2, <2>3
  <2>5. CASE pc = "stats"
    <3>1. Acts(t) /\ Local(t)'
      BY <1>1, <2>1, <2>3, <2>5, GotoFields DEF Local, Whose, Given, Shows, Early, ScoreWaits
    <3>2. FlightsFit'
      BY <1>1, <3>1, FlightsKept
    <3>3. QED
      BY <2>4, <3>1, <3>2, HandlerStep
  <2>6. CASE pc # "stats"
    BY <1>1, <2>3, <2>4, <2>6, LatePlace DEF Late
  <2>7. QED
    BY <2>5, <2>6
<1>5. ASSUME Q!GotSet(t), ~Q!Failed(t) PROVE QueryInv'
  <2>1. Q!Goto(t, "audio") /\ ((c.map # Nil /\ Q!Remember(t, c.map)) \/ last' = last)
    BY <1>5 DEF Q!GotSet
  <2>2. c.map \in Q!MapsMeant(t)
    BY <1>1 DEF Q!MapsMeant
  <2>3. Remembers(t)
    BY <1>3, <2>1, <2>2 DEF Remembers
  <2>4. QED
    BY <1>1, <2>1, <2>3, LatePlace DEF Late
<1>6. ASSUME Q!GotProfile(t), ~Q!Failed(t) PROVE QueryInv'
  BY <1>1, <1>6, LatePlace DEF Q!GotProfile, Late, Remembers
<1>7. QED
  BY <1>2, <1>4, <1>5, <1>6

LEMMA ScoresInHand ==
    ASSUME QueryInv, NEW t \in Tasks, task[t].pc \in ScoreWaits, task[t].got # Nil, task[t].got.ok
    PROVE  /\ Q!P!PostProcess(Q!CmdOf(t), task[t].got.list) # <<>> =>
                 Q!P!PostProcess(Q!CmdOf(t), task[t].got.list)[1].map \in Q!MapsMeant(t)
           /\ Q!Picked(t).say \in Refusals \union Renders
           /\ \A i \in DOMAIN Q!Picked(t).rows :
                 /\ Q!Picked(t).rows[i].score.map \in Q!MapsMeant(t)
                 /\ Q!CmdOf(t).kind = "onMap" \/ Q!CmdOf(t).map # Nil =>
                       Q!Picked(t).rows[i].score.map = task[t].map
           /\ Q!Picked(t).say = "preview" => 1 \in DOMAIN Q!Picked(t).rows
<1> DEFINE c == Q!CmdOf(t)
           r == Q!Resolved(t)
           list == task[t].got.list
           mine == Scores[task[t].user]
           B == {w \in {mine[i] : i \in DOMAIN mine} : c.kind = "onMap" => w.map = task[t].map}
<1>1. /\ Local(t) /\ c \in Commands /\ c # Nil /\ c.kind \in Q!ScoreKinds /\ task[t].user \in Users
      /\ list = ListOf(Q!ScoreKey(t)) /\ task[t].user # Nil
  BY RunsACommand DEF QueryInv, Local, Whose, Given, ScoreWaits
<1>2. list \in Seq(B)
  BY <1>1, ListRows
<1>3. \A w \in B : w.map \in Q!MapsMeant(t) /\ (c.kind = "onMap" => w.map = task[t].map)
  BY <1>1 DEF Q!MapsMeant
<1>4. /\ \A f \in CommandFields : f # "map" => r[f] = c[f]
      /\ r.map = IF c.kind = "onMap" THEN task[t].map ELSE c.map
  BY <1>1, ResolvedIs
<1>5. /\ r.kind = c.kind /\ c.filter \in {"none", "other", "pp"} /\ r.filter = c.filter
      /\ c.limit \in Nat \ {0} /\ r.limit = c.limit /\ c.end \in Nat \union {Nil} /\ r.end = c.end
  BY <1>1, <1>4, QueriesAssumption DEF CommandFields
<1>6. c.map # Nil => task[t].map = c.map
  BY <1>1 DEF Local, Shows
<1> HIDE DEF c, r, list, B
<1>7. Q!P!PostProcess(c, list) \in Seq(B)
  BY <1>1, <1>2, <1>5, ShownRows
<1>8. Q!P!PostProcess(c, list) # <<>> => Q!P!PostProcess(c, list)[1] \in B
  BY <1>7
<1>9. Q!Picked(t) = Q!P!Shown(r, list, <<>>)
  BY DEF Q!Picked, r, list
<1> DEFINE p == Q!P!Shown(r, list, <<>>)
<1>10. /\ p.say \in Refusals \union Renders
       /\ p.say = "preview" => 1 \in DOMAIN p.rows
       /\ \A i \in DOMAIN p.rows : p.rows[i].score \in {w \in B : r.map # Nil => w.map = r.map}
  BY <1>1, <1>2, <1>5, ShownRows, Zenon
<1> HIDE DEF p
<1>11. ASSUME NEW i \in DOMAIN p.rows
       PROVE  /\ p.rows[i].score.map \in Q!MapsMeant(t)
              /\ c.kind = "onMap" \/ c.map # Nil => p.rows[i].score.map = task[t].map
  BY <1>3, <1>4, <1>6, <1>10
<1>12. QED
  BY <1>3, <1>8, <1>9, <1>10, <1>11 DEF c, list, p

LEMMA GotScoresStep == ASSUME QueryInv, NEW t \in Tasks, Q!GotScores(t) PROVE QueryInv'
<1> DEFINE c == Q!CmdOf(t)
           rows == Q!Picked(t).rows
           pc == CASE Q!Picked(t).say = "audio" -> "audio"
                   [] Q!Picked(t).say = "preview" -> "showMap"
                   [] OTHER -> Q!Picked(t).say
           kept == Q!P!PostProcess(c, task[t].got.list)
<1>1. /\ task[t].pc \in ScoreWaits /\ task[t].got # Nil /\ flights' = flights
      /\ c \in Commands /\ c # Nil /\ Tidy /\ Local(t)
  BY RunsACommand DEF Q!GotScores, QueryInv, ScoreWaits
<1>2. CASE Q!Failed(t)
  BY <1>1, <1>2, TextEnds DEF Q!Failed, Remembers, ScoreWaits
<1>3. CASE Q!Text(t) /\ last' = last
  BY <1>1, <1>3, TextEnds DEF Q!Text, Remembers, ScoreWaits
<1>4. ASSUME task[t].got.ok,
             IF kept = <<>> THEN UNCHANGED last ELSE Q!Remember(t, kept[1].map)
      PROVE  /\ last' = last \/ \E m \in Q!MapsMeant(t) : Q!Remember(t, m)
             /\ Q!Picked(t).say \in Refusals \union Renders
             /\ \A i \in DOMAIN rows :
                  /\ rows[i].score.map \in Q!MapsMeant(t)
                  /\ c.kind = "onMap" \/ c.map # Nil => rows[i].score.map = task[t].map
             /\ Q!Picked(t).say = "preview" => 1 \in DOMAIN rows
  BY <1>1, <1>4, ScoresInHand
<1>5. ASSUME last' = last \/ (\E m \in Q!MapsMeant(t) : Q!Remember(t, m)), Acts(t) PROVE Remembers(t)
  <2>1. Q!CmdOf(t)' = c /\ Q!MapsMeant(t) \subseteq (Q!MapsMeant(t))'
    BY <1>1, <1>5, MeantGrows DEF Acts
  <2>2. QED
    BY <1>1, <1>5, <2>1, Zenon DEF Q!Remember, Remembers
<1>6. ASSUME task[t].got.ok, IF kept = <<>> THEN UNCHANGED last ELSE Q!Remember(t, kept[1].map), Q!Text(t)
      PROVE  QueryInv'
  <2>1. Q!Goto(t, "done")
    BY <1>6 DEF Q!Text, Q!Say
  <2>2. Acts(t)
    BY <1>1, <2>1, GotoFields
  <2>3. Remembers(t)
    BY <1>4, <1>5, <1>6, <2>2
  <2>4. QED
    BY <1>1, <2>1, <2>3, LatePlace DEF Late, ScoreWaits
<1>7. ASSUME task[t].got.ok, IF kept = <<>> THEN UNCHANGED last ELSE Q!Remember(t, kept[1].map),
             Q!Picked(t).say \notin Refusals, task' = [task EXCEPT ![t].shows = rows, ![t].pc = pc]
      PROVE  QueryInv'
  <2>1. /\ Q!Picked(t).say \in Renders
        /\ \A i \in DOMAIN rows :
              /\ rows[i].score.map \in Q!MapsMeant(t)
              /\ c.kind = "onMap" \/ c.map # Nil => rows[i].score.map = task[t].map
        /\ Q!Picked(t).say = "preview" => 1 \in DOMAIN rows
    BY <1>4, <1>7
  <2>2. pc \in {"audio", "showMap", "list", "single"} /\ (pc = "showMap" => Q!Picked(t).say = "preview")
    BY <2>1 DEF Renders
  <2> HIDE DEF pc, rows, kept
  <2>3. /\ task' = [s \in Tasks |-> task'[s]] /\ \A s \in Tasks : s # t => task'[s] = task[s]
        /\ task'[t] = [task[t] EXCEPT !.shows = rows, !.pc = pc] /\ DOMAIN task[t] = TaskFields
    BY <1>1, <1>7 DEF Tidy
  <2>4. /\ DOMAIN task'[t] = TaskFields /\ task'[t].pc = pc /\ task'[t].user = task[t].user
        /\ task'[t].cmd = task[t].cmd /\ task'[t].map = task[t].map /\ task'[t].shows = rows
    BY <2>3 DEF TaskFields
  <2>5. Acts(t)
    BY <2>3, <2>4 DEF Acts, GoesOn
  <2>6. Remembers(t)
    BY <1>4, <1>5, <1>7, <2>5
  <2>7. Q!CmdOf(t)' = c /\ Q!MapsMeant(t) \subseteq (Q!MapsMeant(t))'
    BY <1>1, <2>5, MeantGrows DEF Acts
  <2>8. Local(t)'
    <3>1. Whose(t)' /\ Given(t)'
      BY <1>1, <2>2, <2>4, <2>7 DEF Local, Whose, Given, Early, ScoreWaits
    <3>2. Shows(t)'
      BY <1>1, <2>1, <2>2, <2>4, <2>7 DEF Local, Shows
    <3>3. QED
      BY <3>1, <3>2 DEF Local
  <2>9. FlightsFit'
    BY <1>1, <2>5, FlightsKept
  <2>10. QED
    BY <2>5, <2>6, <2>8, <2>9, HandlerStep
<1>8. QED
  BY <1>2, <1>3, <1>6, <1>7 DEF Q!GotScores, Refusals

LEMMA LandStep == ASSUME QueryInv, NEW key \in DOMAIN flights, Q!Land(key) PROVE QueryInv'
<1> DEFINE W == Q!Waiting(key)
<1>1. Tidy /\ FlightsFit /\ LastFits /\ \A t \in Tasks : Local(t)
  BY DEF QueryInv
<1>2. PICK ok \in BOOLEAN :
         task' = [t \in Tasks |-> IF t \notin W THEN task[t] ELSE
                    [task[t] EXCEPT !.got = [ok |-> ok, list |-> flights[key].list,
                       names |-> IF ok THEN Nil ELSE Q!ErrorNames(key, t)]]]
  BY Zenon DEF Q!Land
<1>3. flights' = [k \in DOMAIN flights \ {key} |-> flights[k]] /\ last' = last
  BY DEF Q!Land, Q!Without
<1>4. \A t \in W : /\ t \in Tasks /\ task[t].pc \in Q!Waits /\ task[t].got = Nil /\ key = KeyOf(t)
                   /\ t \in flights[key].waiting
  BY <1>1 DEF FlightsFit, Q!Waiting
<1>5. \A t \in flights[key].waiting : t \in W
  BY <1>1 DEF FlightsFit, Q!Waiting
<1> HIDE DEF W
<1>6. ASSUME NEW t \in W
      PROVE  /\ DOMAIN task'[t] = TaskFields
             /\ task'[t].pc = task[t].pc /\ task'[t].cmd = task[t].cmd /\ task'[t].user = task[t].user
             /\ task'[t].map = task[t].map /\ task'[t].shows = task[t].shows
             /\ task'[t].got.list = flights[key].list
  <2>1. task'[t] = [task[t] EXCEPT !.got = [ok |-> ok, list |-> flights[key].list,
                       names |-> IF ok THEN Nil ELSE Q!ErrorNames(key, t)]]
    BY <1>2, <1>4
  <2>2. DOMAIN task[t] = TaskFields
    BY <1>1, <1>4 DEF Tidy
  <2>3. QED
    BY <2>1, <2>2 DEF TaskFields
<1>7. \A t \in Tasks : t \notin W => task'[t] = task[t]
  BY <1>2
<1>8. Tidy'
  BY <1>1, <1>2, <1>6, <1>7 DEF Tidy
<1>9. ASSUME NEW t \in Tasks PROVE Local(t)'
  <2>1. CASE t \notin W
    BY <1>1, <1>7, <2>1, LocalStays
  <2>2. CASE t \in W
    <3>1. (Q!ScoreKey(t))' = Q!ScoreKey(t)
      BY <1>6, <2>2, SameKey
    <3>2. (Q!MapsMeant(t))' = Q!MapsMeant(t) /\ Q!CmdOf(t)' = Q!CmdOf(t)
      BY <1>6, <2>2 DEF Q!MapsMeant, Q!CmdOf
    <3>3. task[t].pc \in Q!Waits /\ key = KeyOf(t) /\ Local(t)
      BY <1>1, <1>4, <2>2
    <3>4. ASSUME task[t].pc \in ScoreWaits PROVE flights[key].list = ListOf(Q!ScoreKey(t))
      <4>1. key = Q!ScoreKey(t)
        BY <3>3, <3>4 DEF KeyOf, ScoreWaits
      <4>2. Q!CmdOf(t).kind \in Q!ScoreKinds /\ Q!CmdOf(t) \in Commands
        BY <3>3, <3>4 DEF Local, Whose, ScoreWaits
      <4>3. key[1] \in Q!ScoreKinds
        BY <4>1, <4>2, ListedIs
      <4>4. QED
        BY <1>1, <4>1, <4>3 DEF FlightsFit
    <3>5. Given(t)'
      BY <1>6, <2>2, <3>1, <3>2, <3>3, <3>4 DEF Given, Early, Q!Waits
    <3>6. Whose(t)' /\ Shows(t)'
      BY <1>6, <2>2, <3>2, <3>3 DEF Local, Whose, Shows
    <3>7. QED
      BY <3>5, <3>6 DEF Local
  <2>3. QED
    BY <2>1, <2>2
<1>10. FlightsFit'
  <2>1. DOMAIN flights' = DOMAIN flights \ {key} /\ \A k \in DOMAIN flights' : flights'[k] = flights[k]
    BY <1>3
  <2>2. ASSUME NEW k \in DOMAIN flights', NEW t \in flights[k].waiting
        PROVE  t \in Tasks /\ task'[t].pc \in Q!Waits /\ task'[t].got = Nil /\ k = KeyOf(t)'
    <3>1. t \in Tasks /\ task[t].pc \in Q!Waits /\ task[t].got = Nil /\ k = KeyOf(t) /\ k # key
      BY <1>1, <2>1, <2>2 DEF FlightsFit
    <3>2. task'[t] = task[t]
      BY <1>4, <1>7, <3>1
    <3>3. KeyOf(t)' = KeyOf(t)
      BY <3>2, SameKey DEF KeyOf, Q!CmdOf
    <3>4. QED
      BY <3>1, <3>2, <3>3
  <2>3. QED
    BY <1>1, <2>1, <2>2 DEF FlightsFit
<1>11. \A t \in Tasks : GoesOn(t)
  BY <1>6, <1>7 DEF GoesOn
<1>12. LastFits'
  BY <1>1, <1>3, <1>11, LastStays
<1>13. QED
  BY <1>8, <1>9, <1>10, <1>12 DEF QueryInv

LEMMA GiveUpStep == ASSUME QueryInv, NEW t \in Tasks, Q!GiveUp(t) PROVE QueryInv'
<1>1. Tidy /\ FlightsFit /\ Local(t) /\ task[t].pc \in Q!Waits /\ last' = last /\ Q!CmdOf(t) # Nil
  BY RunsACommand DEF QueryInv, Q!GiveUp, Q!Waits
<1>2. PICK key \in DOMAIN flights :
         /\ t \in flights[key].waiting
         /\ flights' = [flights EXCEPT ![key].waiting = @ \ {t}]
         /\ task' = [task EXCEPT ![t].got = [ok |-> FALSE, list |-> <<>>,
               names |-> IF key[1] \in Q!Typed THEN Q!CmdOf(t).qq ELSE Nil]]
  BY Zenon DEF Q!GiveUp
<1> DEFINE bare == [ok |-> FALSE, list |-> <<>>, names |-> IF key[1] \in Q!Typed THEN Q!CmdOf(t).qq ELSE Nil]
<1>3. ~bare.ok
  OBVIOUS
<1>4. task' = [task EXCEPT ![t].got = bare]
  BY <1>2
<1> HIDE DEF bare
<1>5. /\ task' = [s \in Tasks |-> task'[s]] /\ \A s \in Tasks : s # t => task'[s] = task[s]
      /\ task'[t] = [task[t] EXCEPT !.got = bare] /\ DOMAIN task[t] = TaskFields
  BY <1>1, <1>4 DEF Tidy
<1>6. /\ DOMAIN task'[t] = TaskFields /\ task'[t].pc = task[t].pc /\ task'[t].user = task[t].user
      /\ task'[t].cmd = task[t].cmd /\ task'[t].map = task[t].map
      /\ task'[t].got = bare /\ task'[t].shows = task[t].shows
  BY <1>5 DEF TaskFields
<1>7. Acts(t)
  BY <1>5, <1>6 DEF Acts, GoesOn
<1>8. Local(t)'
  <2>1. (Q!MapsMeant(t))' = Q!MapsMeant(t) /\ Q!CmdOf(t)' = Q!CmdOf(t)
    BY <1>6 DEF Q!MapsMeant, Q!CmdOf
  <2>2. QED
    BY <1>1, <1>3, <1>6, <2>1 DEF Local, Whose, Given, Shows, Early, ScoreWaits, Q!Waits
<1>9. FlightsFit'
  <2>1. DOMAIN flights' = DOMAIN flights /\ \A k \in DOMAIN flights : k # key => flights'[k] = flights[k]
    BY <1>2
  <2>2. flights'[key] = [flights[key] EXCEPT !.waiting = @ \ {t}] /\ DOMAIN flights[key] = {"names", "list", "waiting"}
    BY <1>1, <1>2 DEF FlightsFit
  <2>3. /\ DOMAIN flights'[key] = {"names", "list", "waiting"} /\ flights'[key].list = flights[key].list
        /\ flights'[key].waiting = flights[key].waiting \ {t}
    BY <2>2
  <2>4. ASSUME NEW k \in DOMAIN flights, NEW s \in flights'[k].waiting
        PROVE  s \in Tasks /\ task'[s].pc \in Q!Waits /\ task'[s].got = Nil /\ k = KeyOf(s)'
    <3>1. s \in flights[k].waiting /\ (k = key => s # t)
      BY <2>1, <2>3, <2>4
    <3>2. s \in Tasks /\ task[s].pc \in Q!Waits /\ task[s].got = Nil /\ k = KeyOf(s)
      BY <1>1, <3>1 DEF FlightsFit
    <3>3. key = KeyOf(t)
      BY <1>1, <1>2 DEF FlightsFit
    <3>4. task'[s] = task[s]
      BY <1>5, <3>1, <3>2, <3>3
    <3>5. KeyOf(s)' = KeyOf(s)
      BY <3>4, SameKey DEF KeyOf, Q!CmdOf
    <3>6. QED
      BY <3>2, <3>4, <3>5
  <2>5. QED
    BY <1>1, <2>1, <2>3, <2>4 DEF FlightsFit
<1>10. QED
  BY <1>1, <1>7, <1>8, <1>9, HandlerStep DEF Remembers

LEMMA DayStep == ASSUME QueryInv, NEW h \in DOMAIN last, Q!Day(h) PROVE QueryInv'
<1>1. /\ last' = [last EXCEPT ![h].fresh = FALSE] /\ last[h] # Nil /\ UNCHANGED <<task, flights>>
  BY DEF Q!Day
<1>2. DOMAIN last[h] = {"map", "fresh"}
  BY <1>1 DEF QueryInv, LastFits
<1>3. /\ DOMAIN last' = DOMAIN last /\ \A g \in DOMAIN last : g # h => last'[g] = last[g]
      /\ last'[h] = [last[h] EXCEPT !.fresh = FALSE]
  BY <1>1
<1>4. last'[h].map = last[h].map /\ DOMAIN last'[h] = {"map", "fresh"}
  BY <1>2, <1>3
<1>5. ASSUME NEW g \in DOMAIN last', last'[g] # Nil
      PROVE  /\ DOMAIN last'[g] = {"map", "fresh"}
             /\ \E t \in Tasks : /\ Q!CmdOf(t)' # Nil /\ Q!CmdOf(t)'.chat = g
                                 /\ last'[g].map \in (Q!MapsMeant(t))'
  <2>1. g \in DOMAIN last /\ last[g] # Nil /\ last'[g].map = last[g].map /\ DOMAIN last'[g] = {"map", "fresh"}
    BY <1>1, <1>3, <1>4, <1>5 DEF QueryInv, LastFits
  <2>2. PICK t \in Tasks : Q!CmdOf(t) # Nil /\ Q!CmdOf(t).chat = g /\ last[g].map \in Q!MapsMeant(t)
    BY <2>1 DEF QueryInv, LastFits
  <2>3. GoesOn(t)
    BY <1>1 DEF GoesOn
  <2>4. QED
    BY <2>1, <2>2, <2>3, MeantGrows
<1>6. LastFits'
  BY <1>3, <1>5 DEF QueryInv, LastFits
<1>7. QED
  BY <1>1, <1>6, TasksStay DEF QueryInv

LEMMA QueryNext == ASSUME QueryInv, BoundOnce, Q!Next PROVE QueryInv'
<1>1. ASSUME NEW t \in Tasks, Q!Works(t) PROVE QueryInv'
  BY <1>1, PlainSteps, AskSteps, WhoSteps, StatsStep, OwnStatsStep, GotSteps, GotScoresStep, ShowMapStep DEF Q!Works
<1>2. ASSUME NEW q \in DOMAIN bindings, NEW u \in Users, Q!Bind(q, u) PROVE QueryInv'
  <2>1. UNCHANGED <<task, flights, last>>
    BY <1>2 DEF Q!Bind
  <2>2. QED
    BY <2>1, QueryStays
<1>3. QED
  BY <1>1, <1>2, StartStep, GiveUpStep, LandStep, DayStep DEF Q!Next

LEMMA QueryAlways == Spec => [](QueryInv /\ BoundOnce)
<1>1. QueryInv /\ BoundOnce /\ [Next]_vars => (QueryInv /\ BoundOnce)'
  <2>1. ASSUME QueryInv, BoundOnce, UNCHANGED queryVars PROVE (QueryInv /\ BoundOnce)'
    BY <2>1, QueryStays DEF queryVars, BoundOnce
  <2>2. QED
    BY <2>1, OnePartMoves, QueryNext, BoundNext
<1>2. QED
  BY <1>1, QueryInit, BoundInit, PTL DEF Spec

(* A handler is given the list its own request would have been given: the    *)
(* keys of the tables tell apart every two requests whose answers differ.   *)
THEOREM SharedAnswersFit == Spec => []SharedAnswerFits
<1>1. QueryInv => SharedAnswerFits
  <2> SUFFICES ASSUME QueryInv, NEW t \in Tasks, task[t].pc \in ScoreWaits, task[t].got # Nil, task[t].got.ok
               PROVE  task[t].got.list = Q!Listed(t)
    BY DEF SharedAnswerFits, Q!SharedAnswerFits, ScoreWaits
  <2>1. Local(t) /\ Q!CmdOf(t) \in Commands
    BY RunsACommand DEF QueryInv, ScoreWaits
  <2>2. QED
    BY <2>1, ListedIs DEF Local, Whose, Given, ScoreWaits
<1>2. QED
  BY <1>1, QueryAlways, PTL

(* What a handler shows is of the map its command meant when it came, and a *)
(* chat remembers only maps of its own commands.                            *)
THEOREM ChatsRememberTheirMaps == Spec => []ChatsKeepTheirMap
<1>1. QueryInv => Q!OneMapThroughout
  BY DEF QueryInv, Local, Shows, Q!OneMapThroughout
<1>2. QueryInv => Q!RememberedOfThisChat
  BY DEF QueryInv, LastFits, Q!RememberedOfThisChat
<1>3. QED
  BY <1>1, <1>2, QueryAlways, PTL DEF ChatsKeepTheirMap, Q!ChatsKeepTheirMap

------------------------------------------------------------------------------
(* Pages: the loop of process_events against its closed form.               *)
MatchInv ==
    /\ log \in Seq(E!Kinds) /\ ended \subseteq E!Games(log)
    /\ \A i \in E!Games(log) \ ended : \A j \in E!Games(log) : j <= i
    /\ \A i \in DOMAIN log : log[i] = "disband" => i = Len(log)

LEMMA MatchInit == Init => MatchInv
BY DEF Init, E!Init, MatchInv, E!Games

LEMMA MatchNext == ASSUME MatchInv, E!Next PROVE MatchInv'
<1> USE DEF MatchInv, E!Kinds, E!Games
<1>1. ASSUME NEW k \in E!Kinds, E!Publish(k) PROVE MatchInv'
  <2>1. /\ log' = Append(log, k) /\ ended' = ended /\ \A i \in DOMAIN log : log[i] # "disband"
        /\ k = "game" => E!Games(log) \subseteq ended
    BY <1>1 DEF E!Publish
  <2>2. /\ log' \in Seq(E!Kinds) /\ Len(log') = Len(log) + 1 /\ DOMAIN log' = DOMAIN log \union {Len(log) + 1}
        /\ log'[Len(log) + 1] = k /\ \A i \in DOMAIN log : log'[i] = log[i] /\ i <= Len(log)
        /\ Len(log) \in Nat /\ Len(log) + 1 \notin DOMAIN log
    BY <2>1
  <2>3. E!Games(log)' = E!Games(log) \union (IF k = "game" THEN {Len(log) + 1} ELSE {})
    BY <2>2
  <2> HIDE DEF E!Games
  <2>4. ended' \subseteq E!Games(log)'
    BY <2>1, <2>3
  <2>5. E!Games(log) \subseteq DOMAIN log
    BY DEF E!Games
  <2>6. ASSUME NEW i \in E!Games(log)' \ ended', NEW j \in E!Games(log)' PROVE j <= i
    <3>1. CASE k = "game"
      <4>1. i = Len(log) + 1
        BY <2>1, <2>3, <3>1
      <4>2. j <= Len(log) + 1
        BY <2>2, <2>3, <2>5
      <4>3. QED
        BY <4>1, <4>2
    <3>2. CASE k # "game"
      BY <2>1, <2>3, <3>2
    <3>3. QED
      BY <3>1, <3>2
  <2>7. ASSUME NEW i \in DOMAIN log', log'[i] = "disband" PROVE i = Len(log')
    BY <2>1, <2>2, <2>7
  <2>8. QED
    BY <2>2, <2>4, <2>6, <2>7
<1>2. ASSUME NEW i \in E!Games(log), E!Complete(i) PROVE MatchInv'
  BY <1>2 DEF E!Complete
<1>3. QED
  BY <1>1, <1>2 DEF E!Next

(* A row of match_listeners: its pending game is one not consumed yet.      *)
Rows == {c \in E!Cursor : /\ c.last <= Len(log)
                          /\ c.pending = E!None \/ (c.pending \in E!Games(log) /\ c.pending > c.last)}

Notes  == Seq(Nat \X E!Phases)
Output == [last : Nat, notified : Nat, pending : Nat, notes : Notes, stop : BOOLEAN, broke : BOOLEAN]
Opened(c) == [last |-> c.last, notified |-> c.notified, pending |-> c.pending,
              notes |-> <<>>, stop |-> FALSE, broke |-> FALSE]

LEMMA LoopStepType ==
    ASSUME NEW c \in E!Cursor, NEW s \in Output, NEW i \in Nat
    PROVE  E!LoopStep(c, s, i) \in Output
<1> USE DEF Output, Notes, E!Phases
<1>1. ASSUME NEW ph \in E!Phases PROVE Append(s.notes, <<i, ph>>) \in Notes
  BY <1>1
<1>2. E!DisbandStep(s, i) \in Output
  BY <1>1, Zenon DEF E!DisbandStep
<1>3. E!LobbyStep(s, i, log[i]) \in Output
  BY <1>1, Zenon DEF E!LobbyStep
<1>4. E!RunningStep(s, i) \in Output
  BY <1>1, Zenon DEF E!RunningStep
<1>5. E!CompletedStep(s, i) \in Output
  BY <1>1, Zenon DEF E!CompletedStep, E!None
<1>6. [s EXCEPT !.broke = TRUE] \in Output
  BY Zenon
<1> HIDE DEF Output
<1>7. QED
  BY <1>2, <1>3, <1>4, <1>5, <1>6 DEF E!LoopStep

(* The loop takes one step per event.                                       *)
LEMMA LoopSteps ==
    ASSUME NEW c \in E!Cursor, NEW n \in Nat
    PROVE  \E g \in [0..n -> Output] :
              /\ g[0] = Opened(c)
              /\ \A k \in 1..n : g[k] = E!LoopStep(c, g[k - 1], k)
              /\ E!ProcessLoop(c, n) = g[n]
<1> DEFINE x == Opened(c)
           F == [k \in 1..n |-> [s \in Output |-> E!LoopStep(c, s, k)]]
           Eq(g) == g = [i \in 0..n |-> IF i = 0 THEN x ELSE E!LoopStep(c, g[i - 1], i)]
<1>1. ASSUME NEW k \in 1..n, NEW s \in Output PROVE E!LoopStep(c, s, k) \in Output
  BY LoopStepType
<1>2. F \in [1..n -> [Output -> Output]]
  BY <1>1
<1>3. x \in Output
  BY DEF Opened, Output, Notes, E!Cursor
<1>4. PICK g \in [0..n -> Output] : g[0] = x /\ \A k \in 1..n : g[k] = F[k][g[k - 1]]
  <2> HIDE DEF F, x
  <2>1. Iterations(Output, x, n, F) # {}
    BY <1>2, <1>3, Recursion
  <2>2. QED
    BY <2>1 DEF Iterations
<1>5. \A k \in 1..n : k - 1 \in 0..n
  OBVIOUS
<1>6. ASSUME NEW k \in 1..n PROVE F[k][g[k - 1]] = E!LoopStep(c, g[k - 1], k)
  <2>1. g[k - 1] \in Output
    BY <1>5
  <2>2. QED
    BY <2>1
<1> HIDE DEF F, x
<1>7. Eq(g)
  <2>1. \A k \in 0..n : k = 0 \/ k \in 1..n
    OBVIOUS
  <2>2. \A k \in 0..n : g[k] = IF k = 0 THEN x ELSE E!LoopStep(c, g[k - 1], k)
    BY <1>4, <1>6, <2>1
  <2>3. QED
    BY <2>2
<1> DEFINE h == CHOOSE h : Eq(h)
<1>8. Eq(h)
  BY <1>7, Zenon
<1>9. E!ProcessLoop(c, n) = h[n]
  BY DEF E!ProcessLoop, x, Opened
<1> HIDE DEF h
<1>10. h = [i \in 0..n |-> IF i = 0 THEN x ELSE E!LoopStep(c, h[i - 1], i)]
  BY <1>8
<1>11. /\ h[0] = x
       /\ \A k \in 1..n : h[k] = E!LoopStep(c, h[k - 1], k)
  <2>1. 0 \in 0..n /\ \A k \in 1..n : k \in 0..n /\ k # 0
    OBVIOUS
  <2>2. h[0] = x
    BY <1>10, <2>1
  <2>3. ASSUME NEW k \in 1..n PROVE h[k] = E!LoopStep(c, h[k - 1], k)
    BY <1>10, <2>1
  <2>4. QED
    BY <2>2, <2>3
<1> DEFINE T == {k \in 0..n : h[k] \in Output}
<1>12. \A k \in 0..n : k \in T
  <2>1. 0 \in T
    BY <1>3, <1>11
  <2>2. ASSUME NEW k \in 1..n, k - 1 \in T PROVE k \in T
    BY <1>1, <1>11, <2>2
  <2> HIDE DEF T
  <2>3. QED
    BY <2>1, <2>2, UpTo
<1>13. h \in [0..n -> Output]
  BY <1>10, <1>12
<1>14. QED
  BY <1>9, <1>11, <1>13 DEF x

(* What a list of notifications tells: which events, in the order of their  *)
(* ids, each by its phase.                                                  *)
Told(ns)  == {ns[j][1] : j \in DOMAIN ns}
Phase(i)  == IF E!IsRunningGame(log, ended, i) THEN "start" ELSE IF log[i] = "game" THEN "end" ELSE "text"
Orderly(ns) ==
    /\ \A j, k \in DOMAIN ns : j < k => ns[j][1] < ns[k][1]
    /\ \A j \in DOMAIN ns : ns[j] = <<ns[j][1], Phase(ns[j][1])>>

LEMMA OneNoteMore ==
    ASSUME NEW ns \in Notes, Orderly(ns), NEW i \in Nat, \A j \in Told(ns) : j < i
    PROVE  /\ Orderly(Append(ns, <<i, Phase(i)>>))
           /\ Told(Append(ns, <<i, Phase(i)>>)) = Told(ns) \union {i}
<1> DEFINE m == Append(ns, <<i, Phase(i)>>)
<1>1. /\ DOMAIN m = DOMAIN ns \union {Len(ns) + 1} /\ m[Len(ns) + 1] = <<i, Phase(i)>>
      /\ \A j \in DOMAIN ns : m[j] = ns[j] /\ j \in Nat /\ j < Len(ns) + 1
      /\ Len(ns) \in Nat
  BY DEF Notes
<1> HIDE DEF m
<1>2. Told(m) = Told(ns) \union {i}
  BY <1>1 DEF Told
<1>3. ASSUME NEW j \in DOMAIN m, NEW k \in DOMAIN m, j < k PROVE m[j][1] < m[k][1]
  <2>1. j \in DOMAIN ns
    BY <1>1, <1>3
  <2>2. CASE k \in DOMAIN ns
    BY <1>1, <1>3, <2>1, <2>2 DEF Orderly
  <2>3. CASE k = Len(ns) + 1
    <3>1. m[k][1] = i /\ ns[j][1] \in Told(ns)
      BY <1>1, <2>1, <2>3 DEF Told
    <3>2. QED
      BY <1>1, <2>1, <3>1
  <2>4. QED
    BY <1>1, <2>2, <2>3
<1>4. ASSUME NEW j \in DOMAIN m PROVE m[j] = <<m[j][1], Phase(m[j][1])>>
  BY <1>1 DEF Orderly
<1>5. QED
  BY <1>2, <1>3, <1>4 DEF Orderly, m

(* The output of a loop that stopped at n.                                  *)
Fits(c, n, s) ==
    /\ [last |-> s.last, notified |-> s.notified, pending |-> s.pending] = E!NewCursor(c, log, ended, n)
    /\ s.stop = E!StopReason(c, log, n)
    /\ Told(s.notes) = E!Notifications(c, log, ended, n)
    /\ Orderly(s.notes)

Reached(c, h, s) ==
    \E n \in c.last..h :
        /\ \A j \in (c.last + 1)..(n - 1) : ~E!Halts(log, ended, j)
        /\ IF s.broke THEN n > c.last /\ E!Halts(log, ended, n)
           ELSE n = h /\ (n > c.last => ~E!Halts(log, ended, n))
        /\ Fits(c, n, s)

(* A loop that has seen k - 1 events without a break.                       *)
LEMMA LoopSoFar ==
    ASSUME MatchInv, NEW c \in Rows, NEW k \in (c.last + 1)..Len(log), NEW s \in Output,
           Reached(c, k - 1, s), ~s.broke
    PROVE  /\ \A j \in (c.last + 1)..(k - 1) : ~E!Halts(log, ended, j)
           /\ s.last = k - 1 /\ s.notified = IF k - 1 > c.last THEN k - 1 ELSE c.notified
           /\ s.pending = IF c.pending \in (c.last + 1)..(k - 1) THEN E!None ELSE c.pending
           /\ ~s.stop /\ Orderly(s.notes)
           /\ Told(s.notes) = {i \in (c.last + 1)..(k - 1) : log[i] # "quiet"}
           /\ ~(c.pending # E!None /\ k > c.pending /\ s.pending # E!None)
<1>1. /\ c.last \in Nat /\ k \in Nat /\ c.notified \in Nat /\ c.pending \in Nat
      /\ c.pending # E!None => c.pending > c.last /\ c.pending \in E!Games(log)
  BY DEF Rows, E!Cursor, MatchInv, E!None
<1>2. /\ k - 1 > c.last => ~E!Halts(log, ended, k - 1)
      /\ \A j \in (c.last + 1)..(k - 2) : ~E!Halts(log, ended, j)
      /\ Fits(c, k - 1, s)
  BY <1>1 DEF Reached
<1>3. \A j \in (c.last + 1)..(k - 1) : ~E!Halts(log, ended, j)
  BY <1>1, <1>2
<1>4. ~E!Holding(c, log, ended, k - 1)
  BY <1>2 DEF E!Holding, E!Halts
<1>5. E!NewCursor(c, log, ended, k - 1) =
         [last |-> k - 1, notified |-> IF k - 1 > c.last THEN k - 1 ELSE c.notified,
          pending |-> IF c.pending \in (c.last + 1)..(k - 1) THEN E!None ELSE c.pending]
  BY <1>4 DEF E!NewCursor, E!Advanced
<1>6. s.last = k - 1 /\ s.notified = (IF k - 1 > c.last THEN k - 1 ELSE c.notified)
      /\ s.pending = (IF c.pending \in (c.last + 1)..(k - 1) THEN E!None ELSE c.pending)
  BY <1>2, <1>5 DEF Fits
<1>7. ~s.stop
  BY <1>1, <1>2, Zenon DEF Fits, E!StopReason, E!Halts
<1>8. Orderly(s.notes) /\ Told(s.notes) = {i \in (c.last + 1)..(k - 1) : log[i] # "quiet"}
  BY <1>2, <1>4 DEF Fits, E!Notifications
<1>9. ~(c.pending # E!None /\ k > c.pending /\ s.pending # E!None)
  BY <1>1, <1>6
<1>10. QED
  BY <1>3, <1>6, <1>7, <1>8, <1>9

LEMMA ReachedAt ==
    ASSUME NEW c \in E!Cursor, NEW k \in Nat, c.last < k, NEW s, Fits(c, k, s),
           \A j \in (c.last + 1)..(k - 1) : ~E!Halts(log, ended, j),
           IF s.broke THEN E!Halts(log, ended, k) ELSE ~E!Halts(log, ended, k)
    PROVE  Reached(c, k, s)
<1>1. k \in c.last..k
  BY DEF E!Cursor
<1>2. QED
  BY <1>1 DEF Reached

(* All but the quiet events are told, up to a game that is pending already. *)
LEMMA NotedUpTo ==
    ASSUME NEW c \in E!Cursor, NEW k \in Nat, c.last < k
    PROVE  E!Notifications(c, log, ended, k) =
              {i \in (c.last + 1)..(k - 1) : log[i] # "quiet"}
              \union IF log[k] = "quiet" \/ (k = c.pending /\ E!Holding(c, log, ended, k)) THEN {} ELSE {k}
<1> DEFINE X == {i \in (c.last + 1)..(k - 1) : log[i] # "quiet"}
           tells == ~(log[k] = "quiet" \/ (k = c.pending /\ E!Holding(c, log, ended, k)))
<1>1. c.last \in Nat
  BY DEF E!Cursor
<1>2. \A i : i \in (c.last + 1)..k <=> i \in (c.last + 1)..(k - 1) \/ i = k
  BY <1>1
<1>3. k \notin (c.last + 1)..(k - 1)
  BY <1>1
<1>4. \A i : i \in E!Notifications(c, log, ended, k) <=> i \in X \/ (i = k /\ tells)
  BY <1>2, <1>3 DEF E!Notifications
<1>5. QED
  BY <1>4

LEMMA OneEventMore ==
    ASSUME MatchInv, NEW c \in Rows, NEW k \in (c.last + 1)..Len(log), NEW s \in Output,
           Reached(c, k - 1, s)
    PROVE  Reached(c, k, E!LoopStep(c, s, k))
<1> DEFINE r == E!LoopStep(c, s, k)
<1>1. /\ c \in E!Cursor /\ c.last \in Nat /\ k \in Nat /\ k # E!None /\ c.notified \in Nat /\ c.pending \in Nat /\ c.last < k
      /\ k \in DOMAIN log /\ log[k] \in E!Kinds /\ Len(log) \in Nat
      /\ c.pending # E!None => c.pending > c.last /\ c.pending \in E!Games(log)
  BY DEF Rows, E!Cursor, MatchInv, E!None
<1>2. CASE s.broke
  BY <1>1, <1>2 DEF Reached, E!LoopStep
<1>3. CASE ~s.broke
  <2>1. /\ \A j \in (c.last + 1)..(k - 1) : ~E!Halts(log, ended, j)
        /\ s.last = k - 1 /\ s.notified = (IF k - 1 > c.last THEN k - 1 ELSE c.notified)
        /\ s.pending = (IF c.pending \in (c.last + 1)..(k - 1) THEN E!None ELSE c.pending)
        /\ ~s.stop /\ Orderly(s.notes)
        /\ Told(s.notes) = {i \in (c.last + 1)..(k - 1) : log[i] # "quiet"}
        /\ ~(c.pending # E!None /\ k > c.pending /\ s.pending # E!None)
    BY <1>3, LoopSoFar
  <2>2. r = CASE log[k] = "disband"                  -> E!DisbandStep(s, k)
              [] log[k] \in {"text", "quiet"}        -> E!LobbyStep(s, k, log[k])
              [] E!IsRunningGame(log, ended, k)      -> E!RunningStep(s, k)
              [] OTHER                               -> E!CompletedStep(s, k)
    BY <1>1, <1>3, <2>1 DEF E!LoopStep
  <2>3. s.notes \in Notes /\ \A j \in Told(s.notes) : j < k
    BY <1>1, <2>1 DEF Output
  <2>4. /\ Orderly(Append(s.notes, <<k, Phase(k)>>))
        /\ Told(Append(s.notes, <<k, Phase(k)>>)) = Told(s.notes) \union {k}
    BY <1>1, <2>1, <2>3, OneNoteMore, Zenon
  <2>5. s \in [last : Nat, notified : Nat, pending : Nat, notes : Notes, stop : BOOLEAN, broke : BOOLEAN]
    BY DEF Output
  <2> SUFFICES Reached(c, k, r)
    OBVIOUS
  <2> HIDE DEF r
  <2>6. CASE log[k] = "disband"
    <3>0. r = E!DisbandStep(s, k)
      BY <2>2, <2>6 DEF E!IsRunningGame
    <3>1. /\ r.last = k /\ r.notified = k /\ r.pending = s.pending /\ r.stop = TRUE /\ r.broke = TRUE
          /\ r.notes = Append(s.notes, <<k, "text">>)
      BY <2>5, <3>0 DEF E!DisbandStep
    <3>2. Phase(k) = "text" /\ E!Halts(log, ended, k) /\ ~E!Holding(c, log, ended, k) /\ c.pending # k
      BY <1>1, <2>6 DEF Phase, E!IsRunningGame, E!Halts, E!Holding, E!Games
    <3>3. E!NewCursor(c, log, ended, k) = [last |-> r.last, notified |-> r.notified, pending |-> r.pending]
      BY <1>1, <2>1, <3>1, <3>2 DEF E!NewCursor, E!Advanced
    <3>4. E!Notifications(c, log, ended, k) = Told(r.notes) /\ Orderly(r.notes)
      BY <1>1, <2>1, <2>4, <2>6, <3>1, <3>2, NotedUpTo, Zenon
    <3>5. r.stop = E!StopReason(c, log, k)
      BY <1>1, <2>6, <3>1, Zenon DEF E!StopReason
    <3>6. Fits(c, k, r)
      BY <3>3, <3>4, <3>5 DEF Fits
    <3>7. QED
      BY <1>1, <2>1, <3>1, <3>2, <3>6, ReachedAt
  <2>7. CASE log[k] \in {"text", "quiet"}
    <3>0. r = E!LobbyStep(s, k, log[k])
      BY <2>2, <2>7 DEF E!IsRunningGame
    <3>1. /\ r.last = k /\ r.notified = k /\ r.pending = s.pending /\ r.stop = FALSE /\ r.broke = FALSE
          /\ r.notes = IF log[k] = "quiet" THEN s.notes ELSE Append(s.notes, <<k, "text">>)
      BY <1>3, <2>1, <2>5, <3>0 DEF E!LobbyStep
    <3>2. Phase(k) = "text" /\ ~E!Halts(log, ended, k) /\ ~E!Holding(c, log, ended, k) /\ c.pending # k
      BY <1>1, <2>7 DEF Phase, E!IsRunningGame, E!Halts, E!Holding, E!Games
    <3>3. E!NewCursor(c, log, ended, k) = [last |-> r.last, notified |-> r.notified, pending |-> r.pending]
      BY <1>1, <2>1, <3>1, <3>2 DEF E!NewCursor, E!Advanced
    <3>4. E!Notifications(c, log, ended, k) = Told(r.notes) /\ Orderly(r.notes)
      <4>1. CASE log[k] = "quiet"
        BY <1>1, <2>1, <3>1, <3>2, <4>1, NotedUpTo, Zenon
      <4>2. CASE log[k] = "text"
        BY <1>1, <2>1, <2>4, <3>1, <3>2, <4>2, NotedUpTo, Zenon
      <4>3. QED
        BY <2>7, <4>1, <4>2
    <3>5. r.stop = E!StopReason(c, log, k)
      BY <1>1, <2>7, <3>1, Zenon DEF E!StopReason
    <3>6. Fits(c, k, r)
      BY <3>3, <3>4, <3>5 DEF Fits
    <3>7. QED
      BY <1>1, <2>1, <3>1, <3>2, <3>6, ReachedAt
  <2>8. CASE E!IsRunningGame(log, ended, k)
    <3>0. r = E!RunningStep(s, k)
      BY <2>2, <2>8 DEF E!IsRunningGame
    <3>1. /\ r.last = k - 1 /\ r.pending = k /\ r.stop = FALSE /\ r.broke = TRUE
          /\ r.notified = IF s.pending = k THEN s.notified ELSE k
          /\ r.notes = IF s.pending = k THEN s.notes ELSE Append(s.notes, <<k, "start">>)
      BY <2>1, <2>5, <3>0 DEF E!RunningStep
    <3>2. Phase(k) = "start" /\ E!Halts(log, ended, k) /\ E!Holding(c, log, ended, k)
      BY <1>1, <2>8 DEF Phase, E!IsRunningGame, E!Halts, E!Holding
    <3>3. s.pending = k <=> c.pending = k
      BY <1>1, <2>1
    <3>4. E!NewCursor(c, log, ended, k) = [last |-> r.last, notified |-> r.notified, pending |-> r.pending]
      BY <1>1, <2>1, <3>1, <3>2, <3>3 DEF E!NewCursor, E!Advanced
    <3>5. E!Notifications(c, log, ended, k) = Told(r.notes) /\ Orderly(r.notes)
      <4>1. CASE c.pending = k
        BY <1>1, <2>1, <3>1, <3>2, <3>3, <4>1, NotedUpTo, Zenon
      <4>2. CASE c.pending # k
        BY <1>1, <2>1, <2>4, <2>8, <3>1, <3>2, <3>3, <4>2, NotedUpTo, Zenon DEF E!IsRunningGame
      <4>3. QED
        BY <4>1, <4>2
    <3>6. r.stop = E!StopReason(c, log, k)
      BY <1>1, <2>8, <3>1, Zenon DEF E!StopReason, E!IsRunningGame
    <3>7. Fits(c, k, r)
      BY <3>4, <3>5, <3>6 DEF Fits
    <3>8. QED
      BY <1>1, <2>1, <3>1, <3>2, <3>7, ReachedAt
  <2>9. CASE log[k] = "game" /\ ~E!IsRunningGame(log, ended, k)
    <3>0. r = E!CompletedStep(s, k)
      BY <2>2, <2>9
    <3>1. /\ r.last = k /\ r.notified = k /\ r.stop = FALSE /\ r.broke = FALSE
          /\ r.pending = IF s.pending = k THEN E!None ELSE s.pending
          /\ r.notes = Append(s.notes, <<k, "end">>)
      BY <1>3, <2>1, <2>5, <3>0 DEF E!CompletedStep
    <3>2. Phase(k) = "end" /\ ~E!Halts(log, ended, k) /\ ~E!Holding(c, log, ended, k)
      BY <1>1, <2>9 DEF Phase, E!Halts, E!Holding
    <3>3. E!NewCursor(c, log, ended, k) = [last |-> r.last, notified |-> r.notified, pending |-> r.pending]
      <4>1. r.pending = IF c.pending \in (c.last + 1)..k THEN E!None ELSE c.pending
        BY <1>1, <2>1, <3>1
      <4>2. QED
        BY <1>1, <3>1, <3>2, <4>1 DEF E!NewCursor, E!Advanced
    <3>4. E!Notifications(c, log, ended, k) = Told(r.notes) /\ Orderly(r.notes)
      BY <1>1, <2>1, <2>4, <2>9, <3>1, <3>2, NotedUpTo, Zenon
    <3>5. r.stop = E!StopReason(c, log, k)
      BY <1>1, <2>9, <3>1, Zenon DEF E!StopReason
    <3>6. Fits(c, k, r)
      BY <3>3, <3>4, <3>5 DEF Fits
    <3>7. QED
      BY <1>1, <2>1, <3>1, <3>2, <3>6, ReachedAt
  <2>10. QED
    BY <1>1, <2>6, <2>7, <2>8, <2>9 DEF E!Kinds
<1>4. QED
  BY <1>2, <1>3

LEMMA LoopReaches ==
    ASSUME MatchInv, NEW c \in Rows, NEW hi \in c.last..Len(log)
    PROVE  E!ProcessLoop(c, hi) \in Output /\ Reached(c, hi, E!ProcessLoop(c, hi))
<1>1. /\ c \in E!Cursor /\ c.last \in Nat /\ hi \in Nat /\ Len(log) \in Nat /\ c.pending \in Nat
      /\ c.pending = E!None \/ c.pending > c.last
  BY DEF Rows, E!Cursor, MatchInv, E!None
<1>2. PICK g \in [0..hi -> Output] :
         /\ g[0] = Opened(c)
         /\ \A k \in 1..hi : g[k] = E!LoopStep(c, g[k - 1], k)
         /\ E!ProcessLoop(c, hi) = g[hi]
  BY <1>1, LoopSteps, Zenon
<1>3. Fits(c, c.last, Opened(c))
  <2>1. ~E!Holding(c, log, ended, c.last) /\ ~E!StopReason(c, log, c.last)
    BY <1>1 DEF E!Holding, E!StopReason
  <2>2. E!NewCursor(c, log, ended, c.last) = [last |-> c.last, notified |-> c.notified, pending |-> c.pending]
    BY <1>1, <2>1 DEF E!NewCursor, E!Advanced
  <2>3. E!Notifications(c, log, ended, c.last) = {} /\ Told(Opened(c).notes) = {}
    BY <1>1 DEF E!Notifications, Told, Opened
  <2>4. Orderly(Opened(c).notes)
    BY DEF Orderly, Opened
  <2>5. /\ Opened(c).last = c.last /\ Opened(c).notified = c.notified /\ Opened(c).pending = c.pending
        /\ Opened(c).stop = FALSE
    BY DEF Opened
  <2>6. E!StopReason(c, log, c.last) = FALSE
    BY <2>1 DEF E!StopReason
  <2>7. QED
    BY <2>2, <2>3, <2>4, <2>5, <2>6, Zenon DEF Fits
<1>4. Reached(c, c.last, Opened(c))
  BY <1>1, <1>3 DEF Reached, Opened
<1> DEFINE T == {k \in 0..hi : /\ k <= c.last => g[k] = Opened(c)
                               /\ k >= c.last => Reached(c, k, g[k])}
<1>5. 0 \in T
  BY <1>1, <1>2, <1>4
<1>6. ASSUME NEW k \in 1..hi, k - 1 \in T PROVE k \in T
  <2>1. g[k] = E!LoopStep(c, g[k - 1], k) /\ g[k - 1] \in Output /\ k \in 0..hi /\ k - 1 \in 0..hi
    BY <1>2
  <2>2. CASE k <= c.last
    <3>1. g[k - 1] = Opened(c)
      BY <1>1, <1>6, <2>2
    <3>2. g[k] = Opened(c)
      BY <2>1, <2>2, <3>1 DEF E!LoopStep
    <3>3. k = c.last \/ ~(k >= c.last)
      BY <1>1, <2>2
    <3>4. QED
      BY <1>4, <2>1, <3>2, <3>3
  <2>3. CASE k > c.last
    <3>1. Reached(c, k - 1, g[k - 1]) /\ k \in (c.last + 1)..Len(log)
      BY <1>1, <1>6, <2>3
    <3>2. Reached(c, k, g[k])
      BY <2>1, <3>1, OneEventMore
    <3>3. QED
      BY <1>1, <2>1, <2>3, <3>2
  <2>4. QED
    BY <1>1, <2>2, <2>3
<1> HIDE DEF T
<1>7. \A k \in 0..hi : k \in T
  BY <1>1, <1>5, <1>6, UpTo, Zenon
<1>8. hi \in T
  BY <1>1, <1>7
<1>9. QED
  BY <1>1, <1>2, <1>8 DEF T

(* Where the loop stops is where the closed form says, and nowhere else.    *)
LEMMA PageStops ==
    ASSUME MatchInv, NEW c \in Rows, NEW hi \in c.last..Len(log)
    PROVE  \E n \in c.last..hi :
              /\ E!ProcessLoop(c, hi) \in Output /\ Fits(c, n, E!ProcessLoop(c, hi))
              /\ \A j \in (c.last + 1)..(n - 1) : ~E!Halts(log, ended, j)
              /\ n = hi \/ (n > c.last /\ E!Halts(log, ended, n))
              /\ E!ProcessedUpTo(c, log, ended, hi, n)
<1> DEFINE s == E!ProcessLoop(c, hi)
<1>1. PICK n \in c.last..hi :
         /\ \A j \in (c.last + 1)..(n - 1) : ~E!Halts(log, ended, j)
         /\ IF s.broke THEN n > c.last /\ E!Halts(log, ended, n)
            ELSE n = hi /\ (n > c.last => ~E!Halts(log, ended, n))
         /\ Fits(c, n, s)
  <2> HIDE DEF s
  <2>1. Reached(c, hi, s)
    BY LoopReaches DEF s
  <2>2. QED
    BY <2>1 DEF Reached
<1>2. n = hi \/ (n > c.last /\ E!Halts(log, ended, n))
  BY <1>1
<1>3. /\ c.last \in Nat /\ n \in Nat /\ hi \in Nat /\ c.pending \in Nat
      /\ c.pending # E!None => c.pending > c.last /\ log[c.pending] = "game"
  BY DEF Rows, E!Cursor, MatchInv, E!None, E!Games
<1>4. ASSUME NEW i \in (c.last + 1)..n
      PROVE  ~E!HeldBack(c, log, ended, hi, i) /\ (i < n => ~E!Halts(log, ended, i))
  <2>1. i < n => ~E!Halts(log, ended, i)
    BY <1>1, <1>3
  <2>2. ASSUME E!HeldBack(c, log, ended, hi, i) PROVE FALSE
    <3>1. c.pending # E!None /\ i > c.pending /\ ~E!PendingCompleted(c, log, ended, hi)
      BY <2>2 DEF E!HeldBack
    <3>2. c.pending \in (c.last + 1)..(n - 1) /\ c.pending <= hi
      BY <1>3, <3>1
    <3>3. ~E!IsRunningGame(log, ended, c.pending)
      BY <1>1, <3>2 DEF E!Halts
    <3>4. QED
      BY <1>3, <3>1, <3>2, <3>3 DEF E!IsRunningGame, E!PendingCompleted
  <2>3. QED
    BY <2>1, <2>2
<1>5. E!ProcessedUpTo(c, log, ended, hi, n)
  BY <1>2, <1>4 DEF E!ProcessedUpTo
<1>6. QED
  BY <1>1, <1>2, <1>5, LoopReaches

LEMMA StopsOnce ==
    ASSUME NEW c \in Rows, NEW hi \in Nat, NEW n, E!ProcessedUpTo(c, log, ended, hi, n),
           NEW m, E!ProcessedUpTo(c, log, ended, hi, m)
    PROVE  n = m
<1>1. c.last \in Nat
  BY DEF Rows, E!Cursor
<1>2. ASSUME NEW a, E!ProcessedUpTo(c, log, ended, hi, a),
             NEW b, E!ProcessedUpTo(c, log, ended, hi, b), a < b
      PROVE  FALSE
  <2>1. a \in c.last..hi /\ b \in c.last..hi
    BY <1>2 DEF E!ProcessedUpTo
  <2>2. a # hi /\ a + 1 \in (c.last + 1)..b /\ (a > c.last => a \in (c.last + 1)..b)
    BY <1>1, <1>2, <2>1
  <2>3. ~E!HeldBack(c, log, ended, hi, a + 1)
    BY <1>2, <2>2 DEF E!ProcessedUpTo
  <2>4. a > c.last => ~E!Halts(log, ended, a)
    BY <1>2, <2>2 DEF E!ProcessedUpTo
  <2>5. QED
    BY <1>2, <2>2, <2>3, <2>4 DEF E!ProcessedUpTo
<1>3. n \in c.last..hi /\ m \in c.last..hi
  BY DEF E!ProcessedUpTo
<1>4. QED
  BY <1>1, <1>2, <1>3

LEMMA CursorsAreRows == ASSUME MatchInv PROVE E!Cursors \subseteq Rows
<1>1. E!Games(log) \subseteq Nat /\ 0..Len(log) \subseteq Nat /\ E!None \in Nat /\ Len(log) \in Nat
  BY DEF MatchInv, E!Games, E!None
<1>2. ASSUME NEW c \in E!Cursors PROVE c \in Rows
  BY <1>1 DEF E!Cursors, Rows, E!Cursor
<1>3. QED
  BY <1>2

LEMMA ClosedFormFollows == ASSUME MatchInv PROVE E!ClosedFormIsLoop
<1> SUFFICES ASSUME NEW c \in E!Cursors, NEW hi \in 0..Len(log), c.last <= hi
             PROVE  /\ E!Cardinality({n \in 0..hi : E!ProcessedUpTo(c, log, ended, hi, n)}) = 1
                    /\ \A n \in 0..hi : E!ProcessedUpTo(c, log, ended, hi, n) =>
                         LET loop  == E!ProcessLoop(c, hi)
                             notes_ == loop.notes
                             out   == E!NewCursor(c, log, ended, n)
                         IN  /\ out = [last |-> loop.last, notified |-> loop.notified,
                                       pending |-> loop.pending]
                             /\ {notes_[j][1] : j \in DOMAIN notes_} = E!Notifications(c, log, ended, n)
                             /\ \A j \in DOMAIN notes_ : notes_[j] = <<notes_[j][1], E!PhaseOf(out, notes_[j][1])>>
                             /\ \A j, k \in DOMAIN notes_ : j < k => notes_[j][1] < notes_[k][1]
                             /\ loop.stop = E!StopReason(c, log, n)
  BY Zenon DEF E!ClosedFormIsLoop
<1>1. /\ c \in Rows /\ hi \in c.last..Len(log) /\ hi \in Nat /\ c.last \in Nat /\ c.pending \in Nat
      /\ c.pending = E!None \/ c.pending > c.last
  BY CursorsAreRows DEF Rows, E!Cursor, MatchInv
<1>2. PICK n \in c.last..hi :
              /\ E!ProcessLoop(c, hi) \in Output /\ Fits(c, n, E!ProcessLoop(c, hi))
              /\ \A j \in (c.last + 1)..(n - 1) : ~E!Halts(log, ended, j)
              /\ n = hi \/ (n > c.last /\ E!Halts(log, ended, n))
              /\ E!ProcessedUpTo(c, log, ended, hi, n)
  BY <1>1, PageStops
<1>3. \A m \in 0..hi : E!ProcessedUpTo(c, log, ended, hi, m) <=> m = n
  BY <1>1, <1>2, StopsOnce
<1>4. E!Cardinality({m \in 0..hi : E!ProcessedUpTo(c, log, ended, hi, m)}) = 1
  <2>1. n \in 0..hi
    BY <1>1
  <2>2. {m \in 0..hi : E!ProcessedUpTo(c, log, ended, hi, m)} = {n}
    BY <1>3, <2>1
  <2>3. Cardinality({n}) = 1
    BY FS_Singleton, Zenon
  <2>4. E!Cardinality({n}) = Cardinality({n})
    BY DEF E!Cardinality, Cardinality
  <2>5. QED
    BY <2>2, <2>3, <2>4, Zenon
<1> DEFINE s == E!ProcessLoop(c, hi)
           out == E!NewCursor(c, log, ended, n)
<1>5. ASSUME NEW i \in E!Notifications(c, log, ended, n) PROVE E!PhaseOf(out, i) = Phase(i)
  <2>1. i \in (c.last + 1)..n
    BY <1>5 DEF E!Notifications
  <2>2. CASE E!Holding(c, log, ended, n)
    <3>1. out.pending = n
      BY <2>2 DEF E!NewCursor
    <3>2. i # n => ~E!IsRunningGame(log, ended, i)
      BY <1>1, <1>2, <2>1 DEF E!Halts
    <3>3. E!IsRunningGame(log, ended, n)
      BY <2>2 DEF E!Holding
    <3>4. QED
      BY <3>1, <3>2, <3>3 DEF E!PhaseOf, Phase
  <2>3. CASE ~E!Holding(c, log, ended, n)
    <3>1. out.pending = IF c.pending \in (c.last + 1)..n THEN E!None ELSE c.pending
      BY <2>3 DEF E!NewCursor
    <3>2. i # out.pending
      BY <1>1, <2>1, <3>1 DEF E!None
    <3>3. ~E!IsRunningGame(log, ended, i)
      BY <1>1, <1>2, <2>1, <2>3 DEF E!Halts, E!Holding
    <3>4. QED
      BY <3>2, <3>3 DEF E!PhaseOf, Phase
  <2>4. QED
    BY <2>2, <2>3
<1>6. /\ out = [last |-> s.last, notified |-> s.notified, pending |-> s.pending]
      /\ {s.notes[j][1] : j \in DOMAIN s.notes} = E!Notifications(c, log, ended, n)
      /\ \A j \in DOMAIN s.notes : s.notes[j] = <<s.notes[j][1], E!PhaseOf(out, s.notes[j][1])>>
      /\ \A j, k \in DOMAIN s.notes : j < k => s.notes[j][1] < s.notes[k][1]
      /\ s.stop = E!StopReason(c, log, n)
  <2> HIDE DEF s, out
  <2>1. Fits(c, n, s)
    BY <1>2 DEF s
  <2>2. ASSUME NEW j \in DOMAIN s.notes PROVE s.notes[j] = <<s.notes[j][1], E!PhaseOf(out, s.notes[j][1])>>
    <3>1. s.notes[j][1] \in E!Notifications(c, log, ended, n)
      BY <2>1 DEF Fits, Told
    <3>2. E!PhaseOf(out, s.notes[j][1]) = Phase(s.notes[j][1])
      BY <1>5, <3>1
    <3>3. QED
      BY <2>1, <3>2 DEF Fits, Orderly
  <2>3. QED
    BY <2>1, <2>2 DEF Fits, Told, Orderly, out
<1>7. QED
  BY <1>3, <1>4, <1>6

(* Notifications in order are determined by what they tell.                 *)
LEMMA OrderlyIsUnique ==
    ASSUME NEW s \in Notes, Orderly(s), NEW t \in Notes, Orderly(t), Told(s) = Told(t)
    PROVE  s = t
<1>1. /\ Len(s) \in Nat /\ DOMAIN s = 1..Len(s) /\ Len(t) \in Nat /\ DOMAIN t = 1..Len(t)
      /\ \A j \in DOMAIN s : s[j][1] \in Nat
      /\ \A j \in DOMAIN t : t[j][1] \in Nat
  BY DEF Notes
<1> DEFINE Bad == {k \in Nat : (k \in DOMAIN s \/ k \in DOMAIN t)
                                 /\ ~(k \in DOMAIN s /\ k \in DOMAIN t /\ s[k][1] = t[k][1])}
<1>2. ASSUME NEW p \in Notes, Orderly(p), NEW q \in Notes, Orderly(q), Told(p) = Told(q),
             NEW k \in DOMAIN p, \A j \in 1..(k - 1) : j \in DOMAIN q /\ p[j][1] = q[j][1],
             k \in DOMAIN q => p[k][1] < q[k][1]
      PROVE  FALSE
  <2>1. /\ Len(p) \in Nat /\ DOMAIN p = 1..Len(p) /\ Len(q) \in Nat /\ DOMAIN q = 1..Len(q)
        /\ \A j \in DOMAIN p : p[j][1] \in Nat
        /\ \A j \in DOMAIN q : q[j][1] \in Nat
    BY DEF Notes
  <2>2. PICK m \in DOMAIN q : q[m][1] = p[k][1]
    BY <1>2 DEF Told
  <2>3. CASE m < k
    <3>1. m \in DOMAIN p /\ p[m][1] = q[m][1]
      BY <1>2, <2>1, <2>3
    <3>2. p[m][1] < p[k][1]
      BY <1>2, <2>3, <3>1 DEF Orderly
    <3>3. QED
      BY <2>1, <2>2, <3>1, <3>2
  <2>4. CASE m >= k
    <3>1. k \in DOMAIN q
      BY <2>1, <2>4
    <3>2. q[k][1] <= q[m][1]
      BY <1>2, <2>1, <2>4, <3>1 DEF Orderly
    <3>3. QED
      BY <1>2, <2>1, <2>2, <3>1, <3>2
  <2>5. QED
    BY <2>1, <2>3, <2>4
<1>3. Bad = {}
  <2>1. SUFFICES ASSUME Bad # {} PROVE FALSE
    OBVIOUS
  <2>2. PICK k \in Bad : \A j \in Bad : k <= j
    BY <2>1, SmallestOf, Zenon
  <2>3. k \in Nat /\ k >= 1
    BY <1>1
  <2>4. \A j \in 1..(k - 1) : j \in DOMAIN s /\ j \in DOMAIN t /\ s[j][1] = t[j][1]
    <3>1. TAKE j \in 1..(k - 1)
    <3>2. j \notin Bad /\ j \in Nat
      BY <2>2, <2>3
    <3>3. j \in DOMAIN s \/ j \in DOMAIN t
      BY <1>1, <2>3
    <3>4. QED
      BY <3>2, <3>3
  <2>5. CASE k \in DOMAIN s /\ (k \in DOMAIN t => s[k][1] < t[k][1])
    BY <1>2, <2>4, <2>5
  <2>6. CASE k \in DOMAIN t /\ (k \in DOMAIN s => t[k][1] < s[k][1])
    BY <1>2, <2>4, <2>6
  <2>7. QED
    BY <1>1, <2>5, <2>6
<1>4. Len(s) = Len(t)
  <2>1. \A k \in DOMAIN s : k \in DOMAIN t
    BY <1>1, <1>3
  <2>2. \A k \in DOMAIN t : k \in DOMAIN s
    BY <1>1, <1>3
  <2>3. \A a, b \in Nat : (\A k \in 1..a : k \in 1..b) => a <= b
    OBVIOUS
  <2>4. Len(s) <= Len(t) /\ Len(t) <= Len(s)
    BY <1>1, <2>1, <2>2, <2>3
  <2>5. \A a, b \in Nat : a <= b /\ b <= a => a = b
    OBVIOUS
  <2>6. QED
    BY <1>1, <2>4, <2>5, Zenon
<1>5. \A k \in DOMAIN s : s[k] = t[k]
  <2>1. TAKE k \in DOMAIN s
  <2>2. k \in DOMAIN t /\ s[k][1] = t[k][1]
    BY <1>1, <1>3
  <2>3. s[k] = <<s[k][1], Phase(s[k][1])>> /\ t[k] = <<t[k][1], Phase(t[k][1])>>
    BY <2>2 DEF Orderly
  <2>4. QED
    BY <2>2, <2>3
<1>6. s = [k \in 1..Len(s) |-> s[k]] /\ t = [k \in 1..Len(t) |-> t[k]]
  BY DEF Notes
<1>7. [k \in 1..Len(s) |-> s[k]] = [k \in 1..Len(t) |-> t[k]]
  BY <1>1, <1>4, <1>5
<1>8. QED
  BY <1>6, <1>7, Zenon

LEMMA AcknowledgedType ==
    ASSUME NEW c \in E!Cursor, NEW i \in Nat, NEW ph \in E!Phases
    PROVE  E!Acknowledged(c, i, ph) \in E!Cursor
BY Zenon DEF E!Acknowledged, E!Cursor, E!Phases, E!None

(* Each delivery moves the cursor once.                                     *)
LEMMA AckedSteps ==
    ASSUME NEW c \in E!Cursor, NEW ns \in Notes
    PROVE  \E a \in [0..Len(ns) -> E!Cursor] :
              /\ a[0] = c
              /\ \A k \in 1..Len(ns) : a[k] = E!Acknowledged(a[k - 1], ns[k][1], ns[k][2])
              /\ \A k \in 0..Len(ns) : E!AckedUpTo(c, ns, k) = a[k]
<1> DEFINE n == Len(ns)
           F == [k \in 1..n |-> [s \in E!Cursor |-> E!Acknowledged(s, ns[k][1], ns[k][2])]]
           Eq(g) == g = [i \in 0..n |-> IF i = 0 THEN c ELSE E!Acknowledged(g[i - 1], ns[i][1], ns[i][2])]
<1>1. n \in Nat /\ \A k \in 1..n : ns[k][1] \in Nat /\ ns[k][2] \in E!Phases
  BY DEF Notes
<1> HIDE DEF n
<1>2. ASSUME NEW k \in 1..n, NEW s \in E!Cursor PROVE E!Acknowledged(s, ns[k][1], ns[k][2]) \in E!Cursor
  BY <1>1, AcknowledgedType
<1>3. F \in [1..n -> [E!Cursor -> E!Cursor]]
  BY <1>2
<1>4. PICK g \in [0..n -> E!Cursor] : g[0] = c /\ \A k \in 1..n : g[k] = F[k][g[k - 1]]
  <2> HIDE DEF F
  <2>1. Iterations(E!Cursor, c, n, F) # {}
    BY <1>1, <1>3, Recursion, Zenon
  <2>2. QED
    BY <2>1 DEF Iterations
<1>5. \A k \in 1..n : k - 1 \in 0..n
  BY <1>1
<1>6. ASSUME NEW k \in 1..n PROVE F[k][g[k - 1]] = E!Acknowledged(g[k - 1], ns[k][1], ns[k][2])
  <2>1. g[k - 1] \in E!Cursor
    BY <1>5
  <2>2. QED
    BY <2>1
<1> HIDE DEF F
<1>7. Eq(g)
  <2>1. \A k \in 0..n : k = 0 \/ k \in 1..n
    BY <1>1
  <2>2. \A k \in 0..n : g[k] = IF k = 0 THEN c ELSE E!Acknowledged(g[k - 1], ns[k][1], ns[k][2])
    BY <1>4, <1>6, <2>1
  <2>3. QED
    BY <2>2
<1> DEFINE h == CHOOSE h : Eq(h)
<1>8. Eq(h)
  BY <1>7, Zenon
<1>9. \A k : E!AckedUpTo(c, ns, k) = h[k]
  BY DEF E!AckedUpTo, n
<1> HIDE DEF h
<1>10. h = [i \in 0..n |-> IF i = 0 THEN c ELSE E!Acknowledged(h[i - 1], ns[i][1], ns[i][2])]
  BY <1>8, Zenon
<1>11. /\ h[0] = c
       /\ \A k \in 1..n : h[k] = E!Acknowledged(h[k - 1], ns[k][1], ns[k][2])
  <2>1. 0 \in 0..n /\ \A k \in 1..n : k \in 0..n /\ k # 0
    BY <1>1
  <2>2. h[0] = c
    BY <1>10, <2>1
  <2>3. ASSUME NEW k \in 1..n PROVE h[k] = E!Acknowledged(h[k - 1], ns[k][1], ns[k][2])
    BY <1>10, <2>1, Zenon
  <2>4. QED
    BY <2>2, <2>3
<1> DEFINE T == {k \in 0..n : h[k] \in E!Cursor}
<1>12. \A k \in 0..n : k \in T
  <2>1. 0 \in T
    BY <1>1, <1>11
  <2>2. ASSUME NEW k \in 1..n, k - 1 \in T PROVE k \in T
    BY <1>1, <1>2, <1>11, <2>2
  <2> HIDE DEF T
  <2>3. QED
    BY <1>1, <2>1, <2>2, UpTo, Zenon
<1>13. h \in [0..n -> E!Cursor]
  BY <1>10, <1>12
<1>14. QED
  BY <1>9, <1>11, <1>13, Zenon DEF n

(* A later cursor of the same page stops where the first one did.           *)
LEMMA SamePageStops ==
    ASSUME MatchInv, NEW c \in Rows, NEW hi \in Nat, hi <= Len(log), NEW n \in Nat, c.last <= n, n <= hi,
           \A j \in (c.last + 1)..(n - 1) : ~E!Halts(log, ended, j),
           n = hi \/ (n > c.last /\ E!Halts(log, ended, n))
    PROVE  E!ProcessLoop(c, hi) \in Output /\ Fits(c, n, E!ProcessLoop(c, hi))
<1>1. c.last \in Nat /\ hi \in c.last..Len(log) /\ Len(log) \in Nat
  BY DEF Rows, E!Cursor, MatchInv
<1>2. PICK m \in c.last..hi :
              /\ E!ProcessLoop(c, hi) \in Output /\ Fits(c, m, E!ProcessLoop(c, hi))
              /\ \A j \in (c.last + 1)..(m - 1) : ~E!Halts(log, ended, j)
              /\ m = hi \/ (m > c.last /\ E!Halts(log, ended, m))
  BY <1>1, PageStops
<1>3. ~(m < n)
  BY <1>1, <1>2
<1>4. ~(n < m)
  BY <1>1, <1>2
<1>5. QED
  BY <1>1, <1>2, <1>3, <1>4

(* What is left of the notifications of a page after the k-th.              *)
LEMMA RestIsOrderly ==
    ASSUME NEW ns \in Notes, Orderly(ns), NEW k \in 1..Len(ns)
    PROVE  LET rest == SubSeq(ns, k + 1, Len(ns))
           IN  rest \in Notes /\ Orderly(rest) /\ Told(rest) = {j \in Told(ns) : j > ns[k][1]}
<1> DEFINE rest == SubSeq(ns, k + 1, Len(ns))
<1>1. /\ Len(ns) \in Nat /\ DOMAIN ns = 1..Len(ns) /\ \A j \in DOMAIN ns : ns[j][1] \in Nat
      /\ k \in Nat /\ k >= 1 /\ k <= Len(ns)
  BY DEF Notes
<1>2. /\ rest \in Notes /\ DOMAIN rest = 1..(Len(ns) - k)
      /\ \A j \in 1..(Len(ns) - k) : rest[j] = ns[j + k]
  BY <1>1 DEF Notes
<1> HIDE DEF rest
<1>3. \A j \in 1..(Len(ns) - k) : j + k \in DOMAIN ns /\ j + k > k
  BY <1>1
<1>4. Orderly(rest)
  <2>1. ASSUME NEW j \in DOMAIN rest, NEW l \in DOMAIN rest, j < l PROVE rest[j][1] < rest[l][1]
    <3>1. /\ rest[j] = ns[j + k] /\ rest[l] = ns[l + k]
          /\ j + k \in DOMAIN ns /\ l + k \in DOMAIN ns /\ j + k < l + k
      BY <1>1, <1>2, <1>3, <2>1
    <3>2. ns[j + k][1] < ns[l + k][1]
      BY <3>1 DEF Orderly
    <3>3. QED
      BY <3>1, <3>2
  <2>2. ASSUME NEW j \in DOMAIN rest PROVE rest[j] = <<rest[j][1], Phase(rest[j][1])>>
    BY <1>2, <1>3 DEF Orderly
  <2>3. QED
    BY <2>1, <2>2 DEF Orderly
<1>5. ASSUME NEW i \in Told(rest) PROVE i \in Told(ns) /\ i > ns[k][1]
  <2>1. PICK j \in DOMAIN rest : i = rest[j][1]
    BY <1>5 DEF Told
  <2>2. i = ns[j + k][1] /\ j + k \in DOMAIN ns /\ k < j + k /\ k \in DOMAIN ns
    BY <1>1, <1>2, <1>3, <2>1
  <2>3. ns[k][1] < ns[j + k][1]
    BY <2>2 DEF Orderly
  <2>4. QED
    BY <1>1, <2>2, <2>3 DEF Told
<1>6. ASSUME NEW i \in Told(ns), i > ns[k][1] PROVE i \in Told(rest)
  <2>1. PICK j \in DOMAIN ns : i = ns[j][1]
    BY DEF Told
  <2>2. j > k
    <3>1. j < k => ns[j][1] < ns[k][1]
      BY <1>1, <2>1 DEF Orderly
    <3>2. j # k
      BY <1>1, <1>6, <2>1
    <3>3. QED
      BY <1>1, <1>6, <2>1, <3>1, <3>2
  <2>3. j - k \in 1..(Len(ns) - k) /\ (j - k) + k = j
    BY <1>1, <2>1, <2>2
  <2>4. rest[j - k] = ns[j]
    BY <1>2, <2>3
  <2>5. QED
    BY <1>2, <2>1, <2>3, <2>4 DEF Told
<1>7. QED
  BY <1>2, <1>4, <1>5, <1>6 DEF rest

(* A failed delivery: the cursor of the k-th acknowledgement, polled again. *)
LEMMA ResumesAfter ==
    ASSUME MatchInv, NEW c \in Rows, NEW hi \in c.last..Len(log), NEW n \in c.last..hi, NEW ns \in Notes,
           c.pending # E!None => c.pending = c.last + 1,
           \A j \in (c.last + 1)..(n - 1) : ~E!Halts(log, ended, j),
           n = hi \/ (n > c.last /\ E!Halts(log, ended, n)),
           Told(ns) = E!Notifications(c, log, ended, n), Orderly(ns),
           NEW a \in [0..Len(ns) -> E!Cursor], a[0] = c,
           \A k \in 1..Len(ns) : a[k] = E!Acknowledged(a[k - 1], ns[k][1], ns[k][2]),
           NEW k \in 1..Len(ns)
    PROVE  E!ProcessLoop(a[k], hi).notes = SubSeq(ns, k + 1, Len(ns))
<1> DEFINE id(j) == ns[j][1]
<1>1. /\ c.last \in Nat /\ n \in Nat /\ hi \in Nat /\ Len(log) \in Nat /\ hi <= Len(log) /\ n <= hi
      /\ c.pending \in Nat /\ c.pending # E!None => c.pending \in E!Games(log) /\ log[c.pending] = "game"
  BY DEF Rows, E!Cursor, MatchInv, E!None, E!Games
<1>2. /\ Len(ns) \in Nat /\ DOMAIN ns = 1..Len(ns)
      /\ \A j \in DOMAIN ns : id(j) \in Nat /\ ns[j] = <<id(j), Phase(id(j))>>
      /\ \A j, l \in DOMAIN ns : j < l => id(j) < id(l)
  BY DEF Notes, Orderly
<1>3. \A j \in DOMAIN ns : /\ id(j) \in (c.last + 1)..n /\ log[id(j)] # "quiet"
                           /\ ~(n = c.pending /\ E!Holding(c, log, ended, n) /\ id(j) = n)
                           /\ id(j) \in Told(ns)
  BY Zenon DEF Told, E!Notifications
<1> HIDE DEF id
<1>4. \A j \in DOMAIN ns : Phase(id(j)) = "start" =>
         /\ id(j) = n /\ j = Len(ns) /\ E!IsRunningGame(log, ended, n) /\ n > c.last
  <2>1. SUFFICES ASSUME NEW j \in DOMAIN ns, Phase(id(j)) = "start"
                 PROVE  id(j) = n /\ j = Len(ns) /\ E!IsRunningGame(log, ended, n) /\ n > c.last
    OBVIOUS
  <2>2. E!IsRunningGame(log, ended, id(j))
    BY <2>1 DEF Phase
  <2>3. id(j) = n
    BY <1>1, <1>2, <1>3, <2>2 DEF E!Halts
  <2>4. ~(j < Len(ns))
    <3>1. SUFFICES ASSUME j < Len(ns) PROVE FALSE
      OBVIOUS
    <3>2. Len(ns) \in DOMAIN ns
      BY <1>2
    <3>3. id(j) < id(Len(ns))
      BY <1>2, <3>1, <3>2, Zenon
    <3>4. id(Len(ns)) \in (c.last + 1)..n /\ id(Len(ns)) \in Nat
      BY <1>2, <1>3, <3>2, Zenon
    <3>5. QED
      BY <1>1, <2>3, <3>3, <3>4
  <2>5. QED
    BY <1>1, <1>2, <1>3, <2>1, <2>2, <2>3, <2>4
<1>5. 1 \in DOMAIN ns
  BY <1>2
<1>6. c.pending # E!None => ~E!Holding(c, log, ended, n) \/ n # c.pending
  BY <1>1, <1>3, <1>5
<1>7. c.pending # E!None => Phase(id(1)) # "text"
  <2>1. SUFFICES ASSUME c.pending # E!None PROVE Phase(id(1)) # "text"
    OBVIOUS
  <2>2. c.pending \in (c.last + 1)..n
    BY <1>1, <1>3, <1>5, <2>1
  <2>3. c.pending \in Told(ns)
    BY <1>1, <1>6, <2>1, <2>2 DEF E!Notifications
  <2>4. PICK j \in DOMAIN ns : id(j) = c.pending
    BY <2>3 DEF Told, id
  <2>5. ~(1 < j)
    BY <1>1, <1>2, <1>3, <1>5, <2>1, <2>4
  <2>6. j = 1
    BY <1>2, <2>5
  <2>7. QED
    BY <1>1, <2>1, <2>4, <2>6 DEF Phase
<1> DEFINE After(j) == IF Phase(id(j)) = "start"
                       THEN [last |-> a[j - 1].last, notified |-> id(j), pending |-> id(j)]
                       ELSE E!StartCursor(id(j))
           T == {j \in 0..Len(ns) : j = 0 \/ a[j] = After(j)}
<1>8. ASSUME NEW j \in 1..Len(ns), j - 1 \in T PROVE j \in T
  <2>1. a[j] = E!Acknowledged(a[j - 1], id(j), Phase(id(j))) /\ a[j - 1] \in E!Cursor /\ j \in DOMAIN ns
    <3>1. j - 1 \in 0..Len(ns) /\ j \in DOMAIN ns /\ ns[j] = <<id(j), Phase(id(j))>>
      BY <1>2
    <3>2. ns[j][1] = id(j) /\ ns[j][2] = Phase(id(j))
      BY <3>1
    <3>3. QED
      BY <3>1, <3>2, Zenon
  <2>2. CASE Phase(id(j)) = "start"
    <3>1. a[j] = [a[j - 1] EXCEPT !.notified = id(j), !.pending = id(j)]
      BY <2>1, <2>2, Zenon DEF E!Acknowledged
    <3>2. a[j] = After(j)
      BY <2>1, <2>2, <3>1, Zenon DEF E!Cursor
    <3>3. QED
      BY <3>2
  <2>3. CASE Phase(id(j)) = "text"
    <3>1. a[j] = [a[j - 1] EXCEPT !.last = id(j), !.notified = id(j)]
      BY <2>1, <2>3, Zenon DEF E!Acknowledged
    <3>2. a[j - 1].pending = E!None
      <4>1. CASE j = 1
        BY <1>7, <2>3, <4>1
      <4>2. CASE j # 1
        <5>1. j - 1 \in DOMAIN ns /\ j - 1 # Len(ns) /\ j - 1 # 0
          BY <1>2, <4>2
        <5>2. a[j - 1] = After(j - 1) /\ Phase(id(j - 1)) # "start"
          BY <1>4, <1>8, <5>1
        <5>3. QED
          BY <5>2 DEF E!StartCursor
      <4>3. QED
        BY <4>1, <4>2
    <3>3. a[j] = After(j)
      BY <2>1, <2>3, <3>1, <3>2, Zenon DEF E!Cursor, E!StartCursor
    <3>4. QED
      BY <3>3
  <2>4. CASE Phase(id(j)) = "end"
    <3>1. a[j] = [last |-> id(j), notified |-> id(j), pending |-> E!None]
      BY <2>1, <2>4, Zenon DEF E!Acknowledged
    <3>2. a[j] = After(j)
      BY <2>4, <3>1 DEF E!StartCursor
    <3>3. QED
      BY <3>2
  <2>5. QED
    BY <2>2, <2>3, <2>4 DEF Phase
<1>9. \A j \in 0..Len(ns) : j \in T
  <2>1. 0 \in T
    BY <1>2
  <2> HIDE DEF T
  <2>2. QED
    BY <1>2, <1>8, <2>1, UpTo, Zenon
<1>10. a[k] = After(k) /\ (k # 1 => a[k - 1] = After(k - 1)) /\ k \in DOMAIN ns
  <2>1. k \in 0..Len(ns) /\ k # 0 /\ k - 1 \in 0..Len(ns) /\ (k # 1 => k - 1 # 0)
    BY <1>2
  <2>2. k \in T /\ k - 1 \in T
    BY <1>9, <2>1
  <2>3. QED
    BY <1>2, <2>1, <2>2
<1> HIDE DEF T
<1>11. /\ id(k) \in Nat /\ id(k) > c.last /\ id(k) <= n
       /\ E!IsRunningGame(log, ended, n) => n \in E!Games(log)
  <2>1. n \in DOMAIN log \/ n = 0
    BY <1>1 DEF MatchInv
  <2>2. id(k) \in (c.last + 1)..n
    BY <1>3, <1>10
  <2>3. QED
    BY <1>1, <2>1, <2>2 DEF E!Games, E!IsRunningGame
<1>12. CASE Phase(id(k)) # "start"
  <2> DEFINE d == E!StartCursor(id(k))
  <2>1. a[k] = d /\ d \in Rows /\ d.last = id(k) /\ d.pending = 0
    BY <1>1, <1>10, <1>11, <1>12 DEF E!StartCursor, Rows, E!Cursor, E!None
  <2> HIDE DEF d
  <2>2. \A j \in (d.last + 1)..(n - 1) : ~E!Halts(log, ended, j)
    BY <1>1, <1>11, <2>1
  <2>3. n = hi \/ (n > d.last /\ E!Halts(log, ended, n))
    <3>1. SUFFICES ASSUME n # hi, id(k) = n PROVE FALSE
      BY <1>1, <1>11, <2>1
    <3>2. E!Halts(log, ended, n)
      BY <3>1
    <3>3. ~E!IsRunningGame(log, ended, n)
      BY <1>12, <3>1 DEF Phase
    <3>4. log[n] = "disband" /\ n \in DOMAIN log
      BY <1>1, <1>11, <3>2, <3>3 DEF E!Halts, MatchInv
    <3>5. QED
      BY <1>1, <3>1, <3>4 DEF MatchInv
  <2>4. E!ProcessLoop(d, hi) \in Output /\ Fits(d, n, E!ProcessLoop(d, hi))
    BY <1>1, <1>11, <2>1, <2>2, <2>3, SamePageStops
  <2> DEFINE rest == E!ProcessLoop(d, hi).notes
             left_ == SubSeq(ns, k + 1, Len(ns))
  <2>5. rest \in Notes /\ Orderly(rest) /\ Told(rest) = E!Notifications(d, log, ended, n)
    BY <2>4 DEF Output, Fits
  <2>6. left_ \in Notes /\ Orderly(left_) /\ Told(left_) = {j \in Told(ns) : j > id(k)}
    BY RestIsOrderly DEF id
  <2> HIDE DEF rest, left_
  <2>7. E!Notifications(d, log, ended, n) = {j \in (id(k) + 1)..n : log[j] # "quiet"}
    BY <1>1, <1>11, <2>1 DEF E!Notifications
  <2>8. E!Notifications(c, log, ended, n) = {j \in (c.last + 1)..n : log[j] # "quiet"}
    <3>1. ~(n = c.pending /\ E!Holding(c, log, ended, n))
      BY <1>1, <1>6, <1>11 DEF E!None
    <3>2. QED
      BY <3>1 DEF E!Notifications
  <2>9. Told(rest) = Told(left_)
    <3>1. \A j : j \in (id(k) + 1)..n <=> j \in (c.last + 1)..n /\ j > id(k)
      BY <1>1, <1>11
    <3>2. \A j : j \in Told(rest) <=> j \in (id(k) + 1)..n /\ log[j] # "quiet"
      BY <2>5, <2>7
    <3>3. \A j : j \in Told(left_) <=> j \in (c.last + 1)..n /\ log[j] # "quiet" /\ j > id(k)
      BY <2>6, <2>8
    <3>4. QED
      BY <3>1, <3>2, <3>3, Zenon
  <2>10. rest = left_
    BY <2>5, <2>6, <2>9, OrderlyIsUnique, Zenon
  <2>11. QED
    BY <2>1, <2>10 DEF rest, left_
<1>13. CASE Phase(id(k)) = "start"
  <2> DEFINE b == a[k - 1].last
             d == [last |-> b, notified |-> id(k), pending |-> id(k)]
  <2>1. id(k) = n /\ k = Len(ns) /\ E!IsRunningGame(log, ended, n) /\ n \in E!Games(log)
    BY <1>4, <1>10, <1>11, <1>13
  <2>2. b = IF k = 1 THEN c.last ELSE id(k - 1)
    <3>1. CASE k = 1
      BY <3>1
    <3>2. CASE k # 1
      <4>1. k - 1 \in DOMAIN ns /\ k - 1 # Len(ns)
        BY <1>2, <3>2
      <4>2. a[k - 1] = E!StartCursor(id(k - 1))
        BY <1>4, <1>10, <3>2, <4>1
      <4>3. QED
        BY <3>2, <4>2 DEF E!StartCursor
    <3>3. QED
      BY <3>1, <3>2
  <2>3. b \in Nat /\ b >= c.last /\ b < n
    <3>1. CASE k = 1
      BY <1>1, <1>11, <2>1, <2>2, <3>1
    <3>2. CASE k # 1
      <4>1. k - 1 \in DOMAIN ns /\ k - 1 < k
        BY <1>2, <3>2
      <4>2. id(k - 1) \in (c.last + 1)..n /\ id(k - 1) < id(k)
        BY <1>2, <1>3, <1>10, <4>1
      <4>3. QED
        BY <1>1, <2>1, <2>2, <3>2, <4>2
    <3>3. QED
      BY <3>1, <3>2
  <2>4. a[k] = d
    BY <1>10, <1>13
  <2> HIDE DEF b
  <2>5. d \in Rows /\ d.last = b /\ d.pending = n
    BY <1>1, <2>1, <2>3 DEF Rows, E!Cursor
  <2> HIDE DEF d
  <2>6. \A j \in (d.last + 1)..(n - 1) : ~E!Halts(log, ended, j)
    BY <1>1, <2>3, <2>5
  <2>7. n > d.last /\ E!Halts(log, ended, n)
    BY <2>1, <2>3, <2>5 DEF E!Halts
  <2>8. E!ProcessLoop(d, hi) \in Output /\ Fits(d, n, E!ProcessLoop(d, hi))
    <3>1. d.last <= n /\ d \in Rows
      BY <1>1, <2>3, <2>5
    <3>2. QED
      BY <1>1, <2>6, <2>7, <3>1, SamePageStops, Zenon
  <2> DEFINE rest == E!ProcessLoop(d, hi).notes
  <2>9. rest \in Notes /\ Told(rest) = E!Notifications(d, log, ended, n)
    BY <2>8 DEF Output, Fits
  <2> HIDE DEF rest
  <2>10. ASSUME NEW j \in Told(rest) PROVE FALSE
    <3>1. j \in (b + 1)..(n - 1) /\ log[j] # "quiet"
      <4>1. E!Holding(d, log, ended, n)
        BY <2>1, <2>7 DEF E!Holding
      <4>2. j \in (b + 1)..n /\ log[j] # "quiet" /\ j # n
        BY <2>5, <2>9, <4>1 DEF E!Notifications
      <4>3. QED
        BY <1>1, <2>3, <4>2
    <3>2. j \in Told(ns)
      BY <1>1, <2>3, <3>1 DEF E!Notifications
    <3>3. PICK m \in DOMAIN ns : id(m) = j
      BY <3>2 DEF Told, id
    <3>4. ~(m >= k)
      BY <1>2, <1>10, <2>1, <2>3, <3>1, <3>3
    <3>5. m <= k - 1 /\ k - 1 \in DOMAIN ns /\ k # 1
      BY <1>2, <1>10, <3>4
    <3>6. id(m) <= id(k - 1)
      BY <1>2, <3>5
    <3>7. QED
      BY <2>2, <2>3, <3>1, <3>3, <3>5, <3>6
  <2>11. rest = << >>
    <3>1. Len(rest) \in Nat /\ DOMAIN rest = 1..Len(rest)
      BY <2>9 DEF Notes
    <3>2. ~(1 \in DOMAIN rest)
      <4>1. 1 \in DOMAIN rest => rest[1][1] \in Told(rest)
        BY DEF Told
      <4>2. QED
        BY <2>10, <4>1
    <3>3. Len(rest) = 0
      BY <3>1, <3>2
    <3>4. QED
      BY <2>9, <3>3 DEF Notes
  <2>12. SubSeq(ns, k + 1, Len(ns)) = << >>
    BY <1>2, <2>1
  <2>13. QED
    BY <2>4, <2>11, <2>12, Zenon DEF rest
<1>14. QED
  BY <1>12, <1>13

LEMMA ResumesFollows == ASSUME MatchInv PROVE E!ResumesWhereDeliveryFailed
<1> SUFFICES ASSUME NEW c \in E!Cursors, NEW hi \in 0..Len(log), c.last <= hi,
                    c.pending # E!None => c.pending = c.last + 1
             PROVE  \A k \in 0..Len(E!ProcessLoop(c, hi).notes) :
                       E!ProcessLoop(E!AckedUpTo(c, E!ProcessLoop(c, hi).notes, k), hi).notes
                          = SubSeq(E!ProcessLoop(c, hi).notes, k + 1, Len(E!ProcessLoop(c, hi).notes))
  BY DEF E!ResumesWhereDeliveryFailed
<1> DEFINE ns == E!ProcessLoop(c, hi).notes
<1>1. c \in Rows /\ c \in E!Cursor /\ hi \in c.last..Len(log)
  BY CursorsAreRows DEF Rows, E!Cursor, MatchInv
<1>2. PICK n \in c.last..hi :
              /\ E!ProcessLoop(c, hi) \in Output /\ Fits(c, n, E!ProcessLoop(c, hi))
              /\ \A j \in (c.last + 1)..(n - 1) : ~E!Halts(log, ended, j)
              /\ n = hi \/ (n > c.last /\ E!Halts(log, ended, n))
              /\ E!ProcessedUpTo(c, log, ended, hi, n)
  BY <1>1, PageStops
<1>3. ns \in Notes /\ Told(ns) = E!Notifications(c, log, ended, n) /\ Orderly(ns)
  BY <1>2 DEF Output, Fits
<1> SUFFICES ASSUME NEW k \in 0..Len(ns)
             PROVE  E!ProcessLoop(E!AckedUpTo(c, ns, k), hi).notes = SubSeq(ns, k + 1, Len(ns))
  OBVIOUS
<1>4. ns = E!ProcessLoop(c, hi).notes
  OBVIOUS
<1> HIDE DEF ns
<1>5. PICK a \in [0..Len(ns) -> E!Cursor] :
              /\ a[0] = c
              /\ \A j \in 1..Len(ns) : a[j] = E!Acknowledged(a[j - 1], ns[j][1], ns[j][2])
              /\ \A j \in 0..Len(ns) : E!AckedUpTo(c, ns, j) = a[j]
  BY <1>1, <1>3, AckedSteps
<1>6. CASE k = 0
  <2>1. SubSeq(ns, 1, Len(ns)) = ns
    BY <1>3 DEF Notes
  <2>2. QED
    BY <1>4, <1>5, <1>6, <2>1
<1>7. CASE k \in 1..Len(ns)
  <2>1. /\ c \in Rows /\ hi \in c.last..Len(log) /\ n \in c.last..hi /\ ns \in Notes
        /\ a \in [0..Len(ns) -> E!Cursor] /\ a[0] = c
        /\ \A j \in 1..Len(ns) : a[j] = E!Acknowledged(a[j - 1], ns[j][1], ns[j][2])
    BY <1>1, <1>2, <1>3, <1>5
  <2>2. /\ \A j \in (c.last + 1)..(n - 1) : ~E!Halts(log, ended, j)
        /\ n = hi \/ (n > c.last /\ E!Halts(log, ended, n))
        /\ Told(ns) = E!Notifications(c, log, ended, n) /\ Orderly(ns)
    BY <1>2, <1>3
  <2>3. E!ProcessLoop(a[k], hi).notes = SubSeq(ns, k + 1, Len(ns))
    BY <1>7, <2>1, <2>2, ResumesAfter, ZenonT(30)
  <2>4. QED
    BY <1>5, <2>3, Zenon
<1>8. QED
  BY <1>6, <1>7

(* A listener that begins at n hears of everything up to the first game     *)
(* that still runs.                                                         *)
LEMMA FirstPoll ==
    ASSUME MatchInv, NEW n \in 0..Len(log)
    PROVE  \E m \in n..Len(log) :
              /\ Told(E!ProcessLoop(E!StartCursor(n), Len(log)).notes)
                    = {i \in (n + 1)..m : log[i] # "quiet"}
              /\ \A j \in (n + 1)..(m - 1) : ~E!Halts(log, ended, j)
              /\ m = Len(log) \/ (m > n /\ E!Halts(log, ended, m))
<1> DEFINE c == E!StartCursor(n)
<1>1. Len(log) \in Nat /\ n \in Nat /\ n <= Len(log)
  BY DEF MatchInv
<1>2. c \in Rows /\ c.last = n /\ c.pending = 0
  BY <1>1 DEF E!StartCursor, Rows, E!Cursor, E!None
<1> HIDE DEF c
<1>3. Len(log) \in c.last..Len(log)
  BY <1>1, <1>2
<1>4. PICK m \in c.last..Len(log) :
              /\ Fits(c, m, E!ProcessLoop(c, Len(log)))
              /\ \A j \in (c.last + 1)..(m - 1) : ~E!Halts(log, ended, j)
              /\ m = Len(log) \/ (m > c.last /\ E!Halts(log, ended, m))
  BY <1>2, <1>3, PageStops
<1>5. E!Notifications(c, log, ended, m) = {i \in (n + 1)..m : log[i] # "quiet"}
  BY <1>1, <1>2 DEF E!Notifications
<1>6. QED
  BY <1>2, <1>4, <1>5 DEF Fits, c

LEMMA StartsFollow == ASSUME MatchInv PROVE E!StartsWithTheRightGame
<1> SUFFICES ASSUME NEW skip \in 0..2, NEW n \in 0..Len(log), E!StartsAt(log, ended, 0, skip, n)
             PROVE  LET told    == Told(E!ProcessLoop(E!StartCursor(n), Len(log)).notes)
                        skipped == {g \in E!Games(log) : g <= n}
                    IN  IF skip > 0 /\ E!Cardinality(E!Games(log)) >= skip
                        THEN /\ E!Cardinality(skipped) = skip
                             /\ E!Games(log) \ skipped \subseteq told
                        ELSE told = E!Games(log) \ ended
  BY Zenon DEF E!StartsWithTheRightGame, Told
<1> DEFINE told    == Told(E!ProcessLoop(E!StartCursor(n), Len(log)).notes)
           skipped == {g \in E!Games(log) : g <= n}
           all     == E!Games(log)
<1>1. PICK m \in n..Len(log) :
              /\ told = {i \in (n + 1)..m : log[i] # "quiet"}
              /\ \A j \in (n + 1)..(m - 1) : ~E!Halts(log, ended, j)
              /\ m = Len(log) \/ (m > n /\ E!Halts(log, ended, m))
  BY FirstPoll, Zenon
<1> HIDE DEF told
<1>2. /\ Len(log) \in Nat /\ n \in Nat /\ m \in Nat /\ n <= m /\ m <= Len(log)
      /\ \A i \in all : i \in Nat /\ i >= 1 /\ i <= Len(log) /\ log[i] = "game"
  BY DEF MatchInv, E!Games
<1>3. \A i \in Nat : i >= 1 /\ i <= Len(log) /\ log[i] = "game" => i \in all
  BY <1>2 DEF E!Games, MatchInv
<1>4. \A i \in all \ ended : \A j \in all : j <= i
  BY DEF MatchInv
<1>5. \A i \in Nat : i >= 1 /\ i <= Len(log) /\ log[i] = "disband" => i = Len(log)
  BY <1>2 DEF MatchInv
<1> HIDE DEF all
<1>6. {i \in all : i > 0} = all
  BY <1>2
<1>7. CASE skip > 0 /\ E!Cardinality(all) >= skip
  <2>1. E!Cardinality(skipped) = skip
    <3>1. skipped = {h \in all : h <= n}
      BY DEF all
    <3>2. E!Cardinality({h \in all : h <= n}) = skip
      BY <1>6, <1>7, Zenon DEF E!StartsAt, all
    <3>3. QED
      BY <3>1, <3>2, Zenon
  <2>2. ASSUME NEW g \in all, ~(g <= n) PROVE g \in told
    <3>1. g <= m
      <4>1. SUFFICES ASSUME m < g PROVE FALSE
        BY <1>2
      <4>2. m # Len(log) /\ m > n /\ E!Halts(log, ended, m)
        BY <1>1, <1>2, <4>1
      <4>3. log[m] # "disband"
        BY <1>2, <1>5, <4>2
      <4>4. m \in all \ ended
        BY <1>2, <1>3, <4>2, <4>3 DEF E!Halts, E!IsRunningGame
      <4>5. QED
        BY <1>2, <1>4, <4>1, <4>4
    <3>2. g \in (n + 1)..m /\ log[g] # "quiet"
      BY <1>2, <2>2, <3>1
    <3>3. QED
      BY <1>1, <3>2
  <2>3. E!Games(log) \ skipped \subseteq told
    BY <2>2 DEF all
  <2>4. QED
    BY <1>7, <2>1, <2>3 DEF all, told
<1>8. CASE ~(skip > 0 /\ E!Cardinality(all) >= skip)
  <2>1. IF all \ ended # {} THEN n + 1 \in all \ ended ELSE n = Len(log)
    BY <1>6, <1>8, Zenon DEF E!StartsAt, all
  <2>2. told = all \ ended
    <3>1. CASE all \ ended = {}
      <4>1. n = Len(log)
        BY <2>1, <3>1
      <4>2. told = {}
        BY <1>1, <1>2, <4>1
      <4>3. QED
        BY <3>1, <4>2
    <3>2. CASE all \ ended # {}
      <4>1. n + 1 \in all /\ n + 1 \notin ended
        BY <2>1, <3>2
      <4>2. E!Halts(log, ended, n + 1) /\ log[n + 1] # "quiet" /\ n + 1 <= Len(log)
        BY <1>2, <4>1 DEF E!Halts, E!IsRunningGame
      <4>3. m = n + 1
        <5>1. m # n
          BY <1>1, <1>2, <4>2
        <5>2. ~(n + 1 <= m - 1)
          BY <1>1, <1>2, <4>2
        <5>3. QED
          BY <1>2, <5>1, <5>2
      <4>4. told = {n + 1}
        BY <1>1, <1>2, <4>2, <4>3
      <4>5. ASSUME NEW i \in all \ ended PROVE i = n + 1
        BY <1>2, <1>4, <4>1
      <4>6. QED
        BY <4>1, <4>4, <4>5
    <3>3. QED
      BY <3>1, <3>2
  <2>3. QED
    BY <1>8, <2>2 DEF all, told
<1>9. QED
  BY <1>7, <1>8 DEF all

(* A page of events is processed as the loop of process_events does it: the *)
(* closed form the listener's model uses is that loop, for matches of any   *)
(* length, any row and any page; a failed delivery resumes where it failed; *)
(* and a new listener begins with the right game.                           *)
THEOREM PagesAreProcessedAlways == Spec => []PagesAreProcessed
<1>1. MatchInv /\ [Next]_vars => MatchInv'
  <2>1. ASSUME MatchInv, UNCHANGED matchVars PROVE MatchInv'
    BY <2>1 DEF matchVars, MatchInv, E!Games
  <2>2. QED
    BY <2>1, OnePartMoves, MatchNext
<1>2. MatchInv => PagesAreProcessed
  BY ClosedFormFollows, ResumesFollows, StartsFollow DEF PagesAreProcessed, E!PagesAreProcessed
<1>3. QED
  BY <1>1, <1>2, MatchInit, PTL DEF Spec

------------------------------------------------------------------------------
(* Scores: what holds of every score, not only of those that are checked.   *)

(* Of a condition and its opposite exactly one holds.                       *)
LEMMA OneCondition ==
    ASSUME NEW values, NEW key \in Keys, NEW op \in Operators, NEW wanted
    PROVE  LET f == [key |-> key, op |-> op, value |-> wanted, empty |-> FALSE]
           IN  Sc!MatchesFilters(values, <<f>>) <=> Sc!Satisfies(values, f)
<1> DEFINE f == [key |-> key, op |-> op, value |-> wanted, empty |-> FALSE]
<1>2. f.key # Nil /\ f.op # Nil /\ f.empty = FALSE
  BY NilAssumption
<1> HIDE DEF f
<1>3. ~Sc!Malformed(f)
  BY <1>2 DEF Sc!Malformed
<1>4. DOMAIN <<f>> = {1} /\ <<f>>[1] = f
  OBVIOUS
<1>5. Sc!MatchesFilters(values, <<f>>) <=> Sc!Satisfies(values, f)
  BY <1>3, <1>4 DEF Sc!MatchesFilters
<1>6. QED
  BY <1>5 DEF f

(* Whatever the values of a score and the value of a condition: of a        *)
(* condition and its opposite exactly one holds (apply_filter, cmp_f64,     *)
(* cmp_i64), == is never wider than =, and neither holds of what is not     *)
(* known.  Asked of the values: a number, or that it is not known, where a  *)
(* number is compared, and some text where a text is.                       *)
THEOREM ConditionsAreOpposed ==
    ASSUME NEW values, NEW key \in Keys, NEW wanted,
           key \in Sc!Numeric => {wanted, values[key]} \subseteq Int \union {Nil},
           key \in Sc!Textual => wanted # Nil
    PROVE  Sc!FiltersAreOpposed(values, key, wanted)
<1> DEFINE holds(op) == Sc!MatchesFilters(values, <<[key |-> key, op |-> op, value |-> wanted, empty |-> FALSE]>>)
           worded == key = "mod" \/ key \in Sc!Textual
           known == wanted # Nil /\ (worded \/ values[key] # Nil)
           ops == IF worded THEN {"="} ELSE {"=", "==", "<", ">"}
           meets(op) == Sc!Satisfies(values, [key |-> key, op |-> op, value |-> wanted, empty |-> FALSE])
<1>1. ASSUME NEW op \in Operators PROVE holds(op) <=> meets(op)
  BY OneCondition
<1>2. /\ \A op \in ops : op \in Operators /\ Sc!Opposite(op) \in Operators
      /\ "==" \in Operators /\ "=" \in Operators
  BY DEF Operators, Sc!Orders, Sc!Opposite
<1> HIDE DEF holds
<1>3. /\ \A op \in ops : IF known THEN meets(op) <=> ~meets(Sc!Opposite(op))
                         ELSE ~meets(op) /\ ~meets(Sc!Opposite(op))
      /\ meets("==") => meets("=")
  <2>1. CASE key \in Sc!Numeric
    <3> DEFINE a == values[key]
    <3>1. /\ key \notin Sc!Textual /\ key # "mod"
          /\ \A op : meets(op) <=> wanted # Nil /\ a # Nil /\ Sc!Compares(a, wanted, op, Sc!Tolerance(key))
      BY <2>1 DEF Sc!Numeric, Sc!Textual, Sc!Satisfies
    <3>2. Sc!Tolerance(key) \in Int
      BY DEF Sc!Tolerance
    <3>3. ASSUME a \in Int, wanted \in Int
          PROVE  /\ \A op \in {"=", "==", "<", ">"} :
                       Sc!Compares(a, wanted, op, Sc!Tolerance(key))
                          <=> ~Sc!Compares(a, wanted, Sc!Opposite(op), Sc!Tolerance(key))
                 /\ Sc!Compares(a, wanted, "==", Sc!Tolerance(key)) => Sc!Compares(a, wanted, "=", Sc!Tolerance(key))
      BY <3>2, <3>3 DEF Sc!Compares, Sc!Opposite
    <3>4. ~worded /\ {wanted, a} \subseteq Int \union {Nil}
      BY <2>1, <3>1
    <3> HIDE DEF meets, a
    <3>5. QED
      BY <3>1, <3>3, <3>4 DEF a
  <2>2. CASE key \in Sc!Textual
    <3>1. \A op : meets(op) <=> Sc!TextMatches(values[key], op, wanted)
      BY <2>2 DEF Sc!Numeric, Sc!Textual, Sc!Satisfies
    <3>2. Sc!Opposite("=") = "!="
      BY DEF Sc!Opposite
    <3> HIDE DEF meets
    <3>3. QED
      BY <2>2, <3>1, <3>2, Zenon DEF Sc!TextMatches, Sc!Orders
  <2>3. CASE key = "mod"
    <3>1. \A op : meets(op) <=> Sc!ModsMatch(values.mods, op, wanted)
      BY <2>3 DEF Sc!Numeric, Sc!Textual, Sc!Satisfies
    <3>2. Sc!Opposite("=") = "!="
      BY DEF Sc!Opposite
    <3> HIDE DEF meets
    <3>3. QED
      BY <2>3, <3>1, <3>2, Zenon DEF Sc!ModsMatch, Sc!Orders
  <2>4. QED
    BY <2>1, <2>2, <2>3 DEF Keys
<1>4. \A op \in ops : holds(op) \in BOOLEAN /\ holds(Sc!Opposite(op)) \in BOOLEAN
  BY DEF holds, Sc!MatchesFilters
<1> HIDE DEF meets, ops, known
<1>5. /\ \A op \in ops : IF known THEN holds(op) # holds(Sc!Opposite(op)) ELSE ~holds(op) /\ ~holds(Sc!Opposite(op))
      /\ holds("==") => holds("=")
  BY <1>1, <1>2, <1>3, <1>4
<1>6. QED
  BY <1>5 DEF holds, ops, known, Sc!FiltersAreOpposed

------------------------------------------------------------------------------
(* Queries: the rows shown for any scores, any command and any order in     *)
(* which pp is computed.                                                    *)
AScore(Ids, Places) == [id : Ids, map : Places, today : BOOLEAN, pp : BOOLEAN, fits : BOOLEAN]

(* The rows, with pp computed at some of the places.                        *)
Computed(rows, K) ==
    [i \in DOMAIN rows |-> IF i \in K THEN [rows[i] EXCEPT !.score.pp = TRUE] ELSE rows[i]]

ComputedAt(rows, j) == [rows EXCEPT ![j].score.pp = TRUE]

LEMMA OneComputed ==
    ASSUME NEW Ids, NEW Places, NEW rows \in Seq(RowsOf(AScore(Ids, Places))), NEW K, NEW j
    PROVE  ComputedAt(Computed(rows, K), j) = Computed(rows, K \union {j})
<1> DEFINE WithPp(row) == [row EXCEPT !.score.pp = TRUE]
           f == Computed(rows, K)
           g == Computed(rows, K \union {j})
<1>1. \A row \in RowsOf(AScore(Ids, Places)) : WithPp(WithPp(row)) = WithPp(row)
  BY Zenon DEF RowsOf, AScore
<1>2. [f EXCEPT ![j].score.pp = TRUE] = [i \in DOMAIN rows |-> IF i = j THEN WithPp(f[i]) ELSE f[i]]
  BY Zenon DEF Computed
<1>3. ASSUME NEW i \in DOMAIN rows PROVE g[i] = IF i = j THEN WithPp(f[i]) ELSE f[i]
  <2>1. rows[i] \in RowsOf(AScore(Ids, Places))
    OBVIOUS
  <2>2. WithPp(WithPp(rows[i])) = WithPp(rows[i])
    BY <1>1, <2>1, Zenon
  <2>3. /\ f[i] = IF i \in K THEN WithPp(rows[i]) ELSE rows[i]
        /\ g[i] = IF i \in K \union {j} THEN WithPp(rows[i]) ELSE rows[i]
    BY DEF Computed
  <2> HIDE DEF WithPp, f, g
  <2>4. QED
    BY <2>2, <2>3
<1>4. g = [i \in DOMAIN rows |-> g[i]]
  BY DEF Computed
<1> HIDE DEF f, g, WithPp
<1>5. QED
  BY <1>2, <1>3, <1>4, Zenon DEF f, g, ComputedAt

LEMMA EnrichedIsComputed ==
    ASSUME NEW Ids, NEW Places, NEW rows \in Seq(RowsOf(AScore(Ids, Places))), NEW T, NEW order \in Seq(T)
    PROVE  Q!P!Enriched(rows, order) = Computed(rows, {order[k] : k \in DOMAIN order})
<1> DEFINE n == Len(order)
           done(k) == {order[l] : l \in 1..k}
           Eq(f) == f = [k \in 0 .. n |-> IF k = 0 THEN rows ELSE [f[k - 1] EXCEPT ![order[k]].score.pp = TRUE]]
           g == [k \in 0 .. n |-> Computed(rows, done(k))]
           h == CHOOSE f : Eq(f)
<1>1. n \in Nat /\ DOMAIN order = 1..n
  OBVIOUS
<1> HIDE DEF n
<1>2. g[0] = rows
  <2>1. done(0) = {} /\ rows = [i \in DOMAIN rows |-> rows[i]]
    OBVIOUS
  <2> HIDE DEF done
  <2>2. Computed(rows, done(0)) = rows
    BY <2>1 DEF Computed
  <2>3. QED
    BY <1>1, <2>2
<1>3. ASSUME NEW k \in 1..n PROVE g[k] = ComputedAt(g[k - 1], order[k])
  <2>1. done(k) = done(k - 1) \union {order[k]}
    <3>1. \A l : l \in 1..k <=> l \in 1..(k - 1) \/ l = k
      BY <1>1
    <3>2. QED
      BY <3>1
  <2> HIDE DEF done
  <2>2. k - 1 \in 0..n /\ k \in 0..n
    BY <1>1
  <2>3. g[k - 1] = Computed(rows, done(k - 1)) /\ g[k] = Computed(rows, done(k))
    BY <2>2
  <2>4. ComputedAt(Computed(rows, done(k - 1)), order[k]) = Computed(rows, done(k - 1) \union {order[k]})
    BY OneComputed
  <2> HIDE DEF g
  <2>5. QED
    BY <2>1, <2>3, <2>4
<1> HIDE DEF done
<1>4. Eq(g)
  <2>1. \A k \in 0..n : k = 0 \/ k \in 1..n
    BY <1>1
  <2>2. \A k \in 0..n : g[k] = IF k = 0 THEN rows ELSE [g[k - 1] EXCEPT ![order[k]].score.pp = TRUE]
    BY <1>2, <1>3, <2>1, Zenon DEF ComputedAt
  <2>3. g = [k \in 0..n |-> g[k]]
    OBVIOUS
  <2> HIDE DEF g
  <2>4. QED
    BY <2>2, <2>3, Zenon
<1>5. Eq(h)
  BY <1>4, Zenon
<1>6. Q!P!Enriched(rows, order) = h[n]
  BY DEF Q!P!Enriched, n
<1> HIDE DEF h, g
<1>7. h[0] = rows /\ \A k \in 1..n : h[k] = [h[k - 1] EXCEPT ![order[k]].score.pp = TRUE]
  <2>1. 0 \in 0..n /\ \A k \in 1..n : k \in 0..n /\ k # 0
    BY <1>1
  <2>2. h = [k \in 0 .. n |-> IF k = 0 THEN rows ELSE [h[k - 1] EXCEPT ![order[k]].score.pp = TRUE]]
    BY <1>5, Zenon
  <2>3. h[0] = rows
    BY <2>1, <2>2
  <2>4. ASSUME NEW k \in 1..n PROVE h[k] = [h[k - 1] EXCEPT ![order[k]].score.pp = TRUE]
    BY <2>1, <2>2, Zenon
  <2>5. QED
    BY <2>3, <2>4, Zenon
<1> DEFINE S == {k \in 0..n : h[k] = g[k]}
<1>8. \A k \in 0..n : k \in S
  <2>1. 0 \in S
    BY <1>1, <1>2, <1>7
  <2>2. ASSUME NEW k \in 1..n, k - 1 \in S PROVE k \in S
    <3>1. h[k] = g[k]
      BY <1>3, <1>7, <2>2, Zenon DEF ComputedAt
    <3>2. k \in 0..n
      BY <1>1
    <3>3. QED
      BY <3>1, <3>2
  <2> HIDE DEF S
  <2>3. QED
    BY <1>1, <2>1, <2>2, UpTo, Zenon
<1>9. h[n] = Computed(rows, done(n))
  <2>1. n \in 0..n
    BY <1>1
  <2>2. QED
    BY <1>8, <2>1 DEF g
<1>10. QED
  BY <1>1, <1>6, <1>9 DEF done

(* r holds the rows at the places W, in order.                              *)
Ranked(rows) == \A n \in DOMAIN rows : rows[n].rank = n - 1
Lists(r, rows, W) ==
    /\ \A i \in DOMAIN r : r[i].rank + 1 \in W /\ r[i] = rows[r[i].rank + 1]
    /\ \A i, j \in DOMAIN r : i < j => r[i].rank < r[j].rank
    /\ \A n \in W : \E i \in DOMAIN r : r[i] = rows[n]

LEMMA KeptLists ==
    ASSUME NEW S, NEW rows \in Seq(RowsOf(S)), Ranked(rows), NEW W \in SUBSET DOMAIN rows,
           NEW r \in Seq(RowsOf(S)), Lists(r, rows, W), NEW V \in SUBSET W,
           NEW K \in SUBSET DOMAIN r, \A i \in DOMAIN r : i \in K <=> r[i].rank + 1 \in V
    PROVE  Q!P!Kept(r, K) \in Seq(RowsOf(S)) /\ Lists(Q!P!Kept(r, K), rows, V)
<1> DEFINE n == Cardinality(K)
           at == InOrder(K, Upward(K))
           a == Kept(r, K)
<1>1. K \in SUBSET Nat /\ \A i \in DOMAIN r : i \in Nat
  OBVIOUS
<1>2. TotalOrder(K, Upward(K))
  BY <1>1, UpwardIsOrder
<1>3. /\ IsFiniteSet(K) /\ n \in Nat /\ a \in Seq(RowsOf(S)) /\ Len(a) = n
      /\ \A i \in K : \E k \in 1..n : a[k] = r[i]
      /\ \A k \in 1..n : at[k] \in K /\ a[k] = r[at[k]]
  BY <1>2, ArrangedSeq DEF Kept
<1>4. \A k, l \in 1..n : k < l => at[k] < at[l]
  <2>1. \A k, l \in 1..n : k < l => <<at[k], at[l]>> \in Upward(K) /\ at[k] # at[l]
    BY <1>2, <1>3, MembersInOrder, Zenon
  <2>2. \A i, j \in K : <<i, j>> \in Upward(K) => i <= j
    BY DEF Upward
  <2> HIDE DEF n, at
  <2>3. ASSUME NEW k \in 1..n, NEW l \in 1..n, k < l PROVE at[k] < at[l]
    <3>1. at[k] \in K /\ at[l] \in K /\ at[k] \in Nat /\ at[l] \in Nat
      BY <1>1, <1>3
    <3>2. at[k] <= at[l] /\ at[k] # at[l]
      BY <2>1, <2>2, <2>3, <3>1, Zenon
    <3>3. QED
      BY <3>1, <3>2
  <2>4. QED
    BY <2>3
<1> HIDE DEF n, at, a
<1>5. DOMAIN a = 1..n
  BY <1>3
<1>6. ASSUME NEW k \in DOMAIN a PROVE a[k].rank + 1 \in V /\ a[k] = rows[a[k].rank + 1]
  <2>1. at[k] \in K /\ a[k] = r[at[k]]
    BY <1>3, <1>5
  <2>2. QED
    BY <2>1 DEF Lists
<1>7. ASSUME NEW k \in DOMAIN a, NEW l \in DOMAIN a, k < l PROVE a[k].rank < a[l].rank
  <2>1. at[k] \in DOMAIN r /\ at[l] \in DOMAIN r /\ at[k] < at[l] /\ a[k] = r[at[k]] /\ a[l] = r[at[l]]
    BY <1>3, <1>4, <1>5, <1>7
  <2>2. QED
    BY <2>1 DEF Lists
<1>8. ASSUME NEW m \in V PROVE \E k \in DOMAIN a : a[k] = rows[m]
  <2>1. PICK i \in DOMAIN r : r[i] = rows[m]
    BY DEF Lists
  <2>2. r[i].rank + 1 = m
    BY <2>1 DEF Ranked
  <2>3. i \in K
    BY <2>2
  <2>4. QED
    BY <1>3, <1>5, <2>1, <2>3
<1>9. Lists(a, rows, V)
  BY <1>6, <1>7, <1>8 DEF Lists
<1>10. QED
  BY <1>3, <1>9, SameKept DEF a

(* A part of what lists the rows misses none of them in between.            *)
PartOf(r, all) ==
    \E m \in Nat : \A i \in DOMAIN r : i + m \in DOMAIN all /\ r[i] = all[i + m]

LEMMA PartMissesNone ==
    ASSUME NEW S, NEW rows \in Seq(RowsOf(S)), Ranked(rows), NEW W \in SUBSET DOMAIN rows,
           NEW all \in Seq(RowsOf(S)), Lists(all, rows, W),
           NEW r, DOMAIN r = 1..Len(r), Len(r) \in Nat, PartOf(r, all)
    PROVE  /\ \A i \in DOMAIN r : r[i].rank + 1 \in W /\ r[i] = rows[r[i].rank + 1]
           /\ \A i \in 1 .. Len(r) - 1 :
                 /\ r[i].rank < r[i + 1].rank
                 /\ \A n \in r[i].rank + 2 .. r[i + 1].rank : n \notin W
<1>1. PICK m \in Nat : \A i \in DOMAIN r : i + m \in DOMAIN all /\ r[i] = all[i + m]
  BY Zenon DEF PartOf
<1>2. ASSUME NEW i \in DOMAIN r PROVE r[i].rank + 1 \in W /\ r[i] = rows[r[i].rank + 1]
  BY <1>1 DEF Lists
<1>3. ASSUME NEW i \in 1 .. Len(r) - 1
      PROVE  /\ r[i].rank < r[i + 1].rank
             /\ \A n \in r[i].rank + 2 .. r[i + 1].rank : n \notin W
  <2> DEFINE a == i + m
  <2>1. /\ a \in DOMAIN all /\ r[i] = all[a] /\ a + 1 \in DOMAIN all /\ r[i + 1] = all[a + 1]
    <3>1. i \in DOMAIN r /\ i + 1 \in DOMAIN r /\ (i + 1) + m = a + 1
      OBVIOUS
    <3> HIDE DEF a
    <3>2. QED
      BY <1>1, <3>1 DEF a
  <2> HIDE DEF a
  <2>2. all[a].rank < all[a + 1].rank
    <3>1. a < a + 1
      BY <2>1
    <3>2. QED
      BY <2>1, <3>1 DEF Lists
  <2>3. ASSUME NEW n \in all[a].rank + 2 .. all[a + 1].rank, n \in W PROVE FALSE
    <3>1. PICK j \in DOMAIN all : all[j] = rows[n]
      BY <2>3 DEF Lists
    <3>2. n \in DOMAIN rows /\ n \in Int
      BY <2>3
    <3>3. all[j].rank = n - 1
      BY <3>1, <3>2, Zenon DEF Ranked
    <3>4. \A k \in DOMAIN all : all[k] \in RowsOf(S) /\ all[k].rank \in Int
      <4>1. \A k \in DOMAIN all : all[k] \in RowsOf(S)
        OBVIOUS
      <4>2. \A x \in RowsOf(S) : x.rank \in Int
        BY DEF RowsOf
      <4>3. QED
        BY <4>1, <4>2
    <3>5. all[a].rank < all[j].rank /\ all[j].rank < all[a + 1].rank
      BY <2>1, <3>2, <3>3, <3>4
    <3>6. ~(j <= a) /\ ~(a + 1 <= j)
      <4>1. \A k, l \in DOMAIN all : k < l => ~(all[l].rank < all[k].rank)
        <5>1. \A k, l \in DOMAIN all : k < l => all[k].rank < all[l].rank
          BY DEF Lists
        <5>2. QED
          BY <3>4, <5>1
      <4>2. j # a /\ j # a + 1
        BY <2>1, <3>4, <3>5
      <4>3. j \in Int /\ a \in Int
        BY <2>1
      <4>4. ~(j < a) /\ ~(a + 1 < j)
        BY <2>1, <3>5, <4>1
      <4>6. QED
        BY <4>2, <4>3, <4>4
    <3>7. QED
      BY <2>1, <3>6
  <2>4. QED
    BY <2>1, <2>2, <2>3
<1>4. QED
  BY <1>2, <1>3

(* Rows are told from one another by nothing but what is known of a score:  *)
(* computing pp changes nothing else.                                       *)
RowsToChoose(kept, order, filter) ==
    IF filter = "pp" THEN Q!P!Enriched(Q!P!Indexed(kept), order) ELSE Q!P!Indexed(kept)

LEMMA RowsToChooseFrom ==
    ASSUME NEW Ids, NEW Places, NEW kept \in Seq(AScore(Ids, Places)), NEW T, NEW order \in Seq(T), NEW filter
    PROVE  LET rows == RowsToChoose(kept, order, filter)
           IN  /\ rows \in Seq(RowsOf(AScore(Ids, Places))) /\ DOMAIN rows = DOMAIN kept /\ Ranked(rows)
               /\ \A n \in DOMAIN rows :
                     /\ rows[n].score.id = kept[n].id /\ rows[n].score.map = kept[n].map
                     /\ rows[n].score.fits = kept[n].fits
                     /\ filter = "pp" => (rows[n].score.pp <=> kept[n].pp \/ \E k \in DOMAIN order : order[k] = n)
<1> DEFINE S == AScore(Ids, Places)
           computed == filter = "pp"
           indexed == Q!P!Indexed(kept)
           at == {order[k] : k \in DOMAIN order}
           rows == IF computed THEN Q!P!Enriched(indexed, order) ELSE indexed
           WithPp(row) == [row EXCEPT !.score.pp = TRUE]
<1>1. indexed = [n \in 1..Len(kept) |-> [rank |-> n - 1, score |-> kept[n]]] /\ DOMAIN kept = 1..Len(kept)
  BY DEF Q!P!Indexed
<1>2. \A n \in DOMAIN kept : [rank |-> n - 1, score |-> kept[n]] \in RowsOf(S)
  BY DEF RowsOf
<1> HIDE DEF indexed
<1>3. indexed \in Seq(RowsOf(S)) /\ DOMAIN indexed = DOMAIN kept
  <2> HIDE DEF S
  <2>1. Len(kept) \in Nat
    OBVIOUS
  <2>2. \A n \in 1..Len(kept) : [rank |-> n - 1, score |-> kept[n]] \in RowsOf(S)
    BY <1>1, <1>2, Zenon
  <2>3. QED
    BY <1>1, <2>1, <2>2
<1>4. Q!P!Enriched(indexed, order) = Computed(indexed, at)
  BY <1>3, EnrichedIsComputed
<1>5. \A row \in RowsOf(S) : /\ WithPp(row) \in RowsOf(S) /\ WithPp(row).rank = row.rank
                             /\ WithPp(row).score.id = row.score.id /\ WithPp(row).score.map = row.score.map
                             /\ WithPp(row).score.fits = row.score.fits /\ WithPp(row).score.pp = TRUE
  BY Zenon DEF RowsOf, AScore
<1>6. /\ DOMAIN rows = DOMAIN kept
      /\ \A n \in DOMAIN kept : rows[n] = IF computed /\ n \in at THEN WithPp(indexed[n]) ELSE indexed[n]
  BY <1>3, <1>4 DEF Computed
<1>7. rows = [n \in 1..Len(kept) |-> rows[n]]
  BY <1>1, <1>3, <1>4, Zenon DEF Computed
<1> HIDE DEF rows, S, WithPp
<1>8. ASSUME NEW n \in DOMAIN kept
      PROVE  /\ rows[n] \in RowsOf(S) /\ rows[n].rank = n - 1
             /\ rows[n].score.id = kept[n].id /\ rows[n].score.map = kept[n].map
             /\ rows[n].score.fits = kept[n].fits
             /\ computed => (rows[n].score.pp <=> kept[n].pp \/ n \in at)
  <2>1. indexed[n] = [rank |-> n - 1, score |-> kept[n]] /\ indexed[n] \in RowsOf(S) /\ kept[n] \in S
    BY <1>1, <1>2 DEF S
  <2>2. kept[n].pp \in BOOLEAN
    BY <2>1 DEF S, AScore
  <2> HIDE DEF at
  <2>3. CASE computed /\ n \in at
    BY <1>5, <1>6, <2>1, <2>3
  <2>4. CASE ~(computed /\ n \in at)
    BY <1>6, <2>1, <2>4
  <2>5. QED
    BY <2>3, <2>4
<1>9. rows \in Seq(RowsOf(S))
  <2>1. Len(kept) \in Nat /\ \A n \in 1..Len(kept) : rows[n] \in RowsOf(S)
    BY <1>1, <1>8
  <2>2. QED
    BY <1>7, <2>1
<1>10. \A n : n \in at <=> \E k \in DOMAIN order : order[k] = n
  OBVIOUS
<1> HIDE DEF at
<1>11. /\ DOMAIN rows = DOMAIN kept /\ Ranked(rows)
       /\ \A n \in DOMAIN rows :
             /\ rows[n].score.id = kept[n].id /\ rows[n].score.map = kept[n].map
             /\ rows[n].score.fits = kept[n].fits
             /\ computed => (rows[n].score.pp <=> kept[n].pp \/ \E k \in DOMAIN order : order[k] = n)
  BY <1>6, <1>8, <1>10 DEF Ranked
<1>12. QED
  BY <1>9, <1>11 DEF rows, S, indexed, RowsToChoose

(* However a command is worded, whatever the list and whatever order pp is  *)
(* computed in: the rows shown keep the places of their scores, are of the  *)
(* map asked for, satisfy the conditions, and none that does is missing     *)
(* between two of them.                                                     *)
THEOREM ShownRowsAreTheirs ==
    ASSUME NEW Ids, NEW Places, NEW scores \in Seq(AScore(Ids, Places)), NEW T, NEW order \in Seq(T),
           NEW c, c.kind \in Q!ScoreKinds, c.filter \in {"none", "other", "pp"},
           c.limit \in Nat \ {0}, c.end \in Nat \union {Nil}
    PROVE  Q!P!RowsAreTheirs(c, scores, order)
<1> DEFINE S == AScore(Ids, Places)
           kept == Q!P!PostProcess(c, scores)
           computed == c.filter = "pp"
           rows == RowsToChoose(kept, order, c.filter)
           ofMap == Q!P!OfMap(c, rows)
           all == Q!P!Matching(c, ofMap)
           shown == Q!P!Shown(c, scores, order).rows
           V == {n \in DOMAIN rows : c.map # Nil => rows[n].score.map = c.map}
           W == {n \in V : /\ c.filter # "none" => rows[n].score.fits
                           /\ computed => rows[n].score.pp}
<1>1. kept \in Seq(S)
  BY KeptRows DEF Q!P!PostProcess
<1> HIDE DEF kept, S
<1>2. /\ rows \in Seq(RowsOf(S)) /\ DOMAIN rows = DOMAIN kept /\ Ranked(rows)
      /\ \A n \in DOMAIN rows :
            /\ rows[n].score.id = kept[n].id /\ rows[n].score.map = kept[n].map
            /\ rows[n].score.fits = kept[n].fits
            /\ computed => (rows[n].score.pp <=> kept[n].pp \/ \E k \in DOMAIN order : order[k] = n)
  BY <1>1, RowsToChooseFrom DEF S
<1> HIDE DEF rows
<1>3. Lists(rows, rows, DOMAIN rows)
  <2>1. \A n \in DOMAIN rows : rows[n].rank = n - 1 /\ n \in Nat
    BY <1>2 DEF Ranked
  <2>2. QED
    BY <2>1 DEF Lists
<1>4. ofMap \in Seq(RowsOf(S)) /\ Lists(ofMap, rows, V)
  <2>1. CASE c.map = Nil
    <3>1. V = DOMAIN rows /\ ofMap = rows
      BY <2>1, Zenon DEF Q!P!OfMap
    <3>2. QED
      BY <1>2, <1>3, <3>1
  <2>2. CASE c.map # Nil
    <3> DEFINE K == {i \in DOMAIN rows : rows[i].score.map = c.map}
    <3>1. ofMap = Q!P!Kept(rows, K)
      BY <2>2 DEF Q!P!OfMap
    <3>2. K \in SUBSET DOMAIN rows /\ V \in SUBSET DOMAIN rows
      OBVIOUS
    <3>3. \A i \in DOMAIN rows : i \in K <=> rows[i].rank + 1 \in V
      BY <1>2, <2>2 DEF Ranked
    <3> HIDE DEF K, V, ofMap
    <3>4. QED
      BY <1>2, <1>3, <3>1, <3>2, <3>3, KeptLists, Zenon
  <2>3. QED
    BY <2>1, <2>2
<1>5. V \in SUBSET DOMAIN rows /\ W \in SUBSET V /\ W \in SUBSET DOMAIN rows
  OBVIOUS
<1> HIDE DEF ofMap
<1>6. all \in Seq(RowsOf(S)) /\ Lists(all, rows, W)
  <2>1. \A i \in DOMAIN ofMap : ofMap[i].rank + 1 \in V /\ ofMap[i] = rows[ofMap[i].rank + 1]
    BY <1>4 DEF Lists
  <2>2. CASE c.filter = "none"
    <3>1. W = V /\ all = ofMap
      BY <2>2 DEF Q!P!Matching
    <3>2. QED
      BY <1>4, <3>1, Zenon
  <2>3. CASE c.filter # "none"
    <3> DEFINE K == IF computed THEN {i \in DOMAIN ofMap : ofMap[i].score.pp /\ ofMap[i].score.fits}
                    ELSE {i \in DOMAIN ofMap : ofMap[i].score.fits}
    <3>1. all = Q!P!Kept(ofMap, K)
      BY <2>3 DEF Q!P!Matching
    <3>2. K \in SUBSET DOMAIN ofMap
      OBVIOUS
    <3>3. \A i \in DOMAIN ofMap : i \in K <=> ofMap[i].rank + 1 \in W
      BY <2>1, <2>3
    <3> HIDE DEF K, V, W, all
    <3>4. QED
      BY <1>2, <1>4, <1>5, <3>1, <3>2, <3>3, KeptLists, Zenon
  <2>4. QED
    BY <2>2, <2>3
<1>7. Q!P!Shown(c, scores, order) =
         CASE kept = <<>> -> Q!P!Refuse("empty")
           [] kept # <<>> /\ all = <<>> -> Q!P!Refuse("noMatch")
           [] all # <<>> /\ c.end # Nil -> Q!P!Range0(c, all)
           [] all # <<>> /\ c.end = Nil /\ c.all -> Q!P!BareList(c, all)
           [] all # <<>> /\ c.end = Nil /\ ~c.all -> Q!P!One(c, all)
  BY DEF Q!P!Shown, kept, rows, ofMap, RowsToChoose
<1> HIDE DEF all, shown, V
<1> DEFINE Part(x) == x.rows \in Seq(RowsOf(S)) /\ PartOf(x.rows, all)
<1>8. \A why : Part(Q!P!Refuse(why))
  BY DEF Q!P!Refuse, PartOf
<1>9. ASSUME NEW a \in Nat \ {0}, NEW b \in Int, b <= Len(all)
      PROVE  SubSeq(all, a, b) \in Seq(RowsOf(S)) /\ PartOf(SubSeq(all, a, b), all)
  <2>1. SubSeq(all, a, b) \in Seq(RowsOf(S))
    BY <1>6, <1>9, PartOfRows
  <2> DEFINE m == a - 1
             slice == SubSeq(all, a, b)
  <2>2. m \in Nat /\ slice = [i \in 1..(1 + b - a) |-> all[i + a - 1]]
    BY <1>6
  <2>3. ASSUME NEW i \in DOMAIN slice PROVE i + m \in DOMAIN all /\ slice[i] = all[i + m]
    <3>1. i \in 1..(1 + b - a) /\ i + m = i + a - 1
      BY <2>2
    <3>2. DOMAIN all = 1..Len(all) /\ Len(all) \in Nat
      BY <1>6
    <3>3. i + m \in DOMAIN all
      BY <1>9, <3>1, <3>2
    <3> HIDE DEF slice, m
    <3>4. slice[i] = all[i + a - 1]
      BY <2>2, <3>1
    <3>5. QED
      BY <3>1, <3>3, <3>4
  <2> HIDE DEF m, slice
  <2>4. PartOf(slice, all)
    BY <2>2, <2>3, Zenon DEF PartOf
  <2>5. QED
    BY <2>1, <2>4 DEF slice
<1>10. ASSUME c.end # Nil PROVE Part(Q!P!Range0(c, all))
  <2> DEFINE end == IF c.end < Len(all) THEN c.end ELSE Len(all)
             b == IF end < c.limit - 1 THEN Len(all) ELSE end
  <2>1. Q!P!Range0(c, all) = IF c.limit - 1 >= Len(all) THEN Q!P!Refuse("outOfRange")
                             ELSE [say |-> "list", rows |-> SubSeq(all, c.limit, b)]
    BY DEF Q!P!Range0, Q!P!Smaller
  <2>2. b \in Int /\ b <= Len(all)
    BY <1>6, <1>10
  <2>3. QED
    BY <1>8, <1>9, <2>1, <2>2
<1>11. Part(Q!P!BareList(c, all))
  <2> DEFINE b == IF c.limit < Len(all) THEN c.limit ELSE Len(all)
  <2>1. Q!P!BareList(c, all).rows = IF Q!P!SpecOf(c).bare THEN SubSeq(all, 1, b) ELSE all
    BY DEF Q!P!BareList, Q!P!Smaller
  <2>2. b \in Int /\ b <= Len(all)
    BY <1>6
  <2>3. PartOf(all, all)
    <3>1. \A i \in DOMAIN all : i + 0 = i
      BY <1>6
    <3>2. QED
      BY <3>1 DEF PartOf
  <2>4. QED
    BY <1>6, <1>9, <2>1, <2>2, <2>3
<1>12. Part(Q!P!One(c, all))
  <2>1. CASE c.limit - 1 >= Len(all)
    BY <1>8, <2>1 DEF Q!P!One
  <2>2. CASE c.limit - 1 < Len(all)
    <3>1. Q!P!One(c, all).rows = <<all[c.limit]>>
      BY <1>6, <2>2 DEF Q!P!One
    <3>2. c.limit \in DOMAIN all /\ all[c.limit] \in RowsOf(S)
      BY <1>6, <2>2
    <3>3. <<all[c.limit]>> \in Seq(RowsOf(S)) /\ \A i \in DOMAIN <<all[c.limit]>> : i = 1
      BY <3>2
    <3>4. c.limit - 1 \in Nat /\ 1 + (c.limit - 1) = c.limit
      OBVIOUS
    <3>5. PartOf(<<all[c.limit]>>, all)
      BY <3>2, <3>3, <3>4 DEF PartOf
    <3>6. QED
      BY <3>1, <3>3, <3>5
  <2>3. QED
    BY <1>6, <2>1, <2>2
<1> HIDE DEF Part
<1>13. Part(Q!P!Shown(c, scores, order))
  BY <1>7, <1>8, <1>10, <1>11, <1>12
<1>14. shown \in Seq(RowsOf(S)) /\ PartOf(shown, all)
  BY <1>13 DEF Part, shown
<1>15. /\ \A i \in DOMAIN shown : shown[i].rank + 1 \in W /\ shown[i] = rows[shown[i].rank + 1]
       /\ \A i \in 1 .. Len(shown) - 1 :
             /\ shown[i].rank < shown[i + 1].rank
             /\ \A n \in shown[i].rank + 2 .. shown[i + 1].rank : n \notin W
  <2>1. DOMAIN shown = 1..Len(shown) /\ Len(shown) \in Nat
    BY <1>14
  <2> HIDE DEF W
  <2>2. QED
    BY <1>2, <1>5, <1>6, <1>14, <2>1, PartMissesNone, Zenon
<1> DEFINE wanted(n) == /\ c.map = Nil \/ kept[n].map = c.map
                        /\ c.filter = "none" \/ kept[n].fits
                        /\ c.filter = "pp" => kept[n].pp \/ n \in Q!P!ToSet(order)
<1>16. \A n \in DOMAIN rows : n \in W <=> wanted(n)
  <2>1. \A n : n \in Q!P!ToSet(order) <=> \E k \in DOMAIN order : order[k] = n
    BY DEF Q!P!ToSet
  <2>2. QED
    BY <1>2, <2>1 DEF V
<1> HIDE DEF W
<1>17. \A i \in DOMAIN shown : LET n == shown[i].rank + 1 IN
          n \in DOMAIN kept /\ shown[i].score.id = kept[n].id /\ wanted(n)
  BY <1>2, <1>5, <1>15, <1>16
<1>18. ASSUME NEW i \in 1 .. Len(shown) - 1
       PROVE  /\ shown[i].rank < shown[i + 1].rank
              /\ \A n \in shown[i].rank + 2 .. shown[i + 1].rank : ~wanted(n)
  <2>1. i \in DOMAIN shown /\ i + 1 \in DOMAIN shown
    BY <1>14
  <2>2. shown[i].rank + 1 \in DOMAIN rows /\ shown[i + 1].rank + 1 \in DOMAIN rows
    BY <1>5, <1>15, <2>1
  <2>3. DOMAIN rows = 1..Len(rows) /\ Len(rows) \in Nat /\ shown[i].rank \in Int /\ shown[i + 1].rank \in Int
    <3>1. shown[i] \in RowsOf(S) /\ shown[i + 1] \in RowsOf(S)
      BY <1>14, <2>1
    <3>2. QED
      BY <1>2, <3>1 DEF RowsOf
  <2>4. \A n \in shown[i].rank + 2 .. shown[i + 1].rank : n \in DOMAIN rows
    <3> DEFINE x == shown[i].rank
               y == shown[i + 1].rank
    <3>1. x + 1 \in 1..Len(rows) /\ y + 1 \in 1..Len(rows) /\ x \in Int /\ y \in Int /\ Len(rows) \in Nat
      BY <2>2, <2>3
    <3> HIDE DEF x, y
    <3>2. \A n \in x + 2 .. y : n \in 1..Len(rows)
      BY <3>1
    <3>3. QED
      BY <2>3, <3>2, Zenon DEF x, y
  <2>5. QED
    BY <1>15, <1>16, <2>4
<1>19. QED
  BY <1>17, <1>18 DEF Q!P!RowsAreTheirs, shown, kept

------------------------------------------------------------------------------
(* Grades, for any counts: how high a grade is, by the cuts it reaches.     *)
Counted == {"geki", "n300", "katu", "n100", "n50", "miss", "ok",
            "largeHit", "smallHit", "largeMiss", "smallMiss"}
Judgements == [geki : Nat, n300 : Nat, katu : Nat, n100 : Nat, n50 : Nat, miss : Nat, ok : Nat,
               largeHit : Nat, smallHit : Nat, largeMiss : Nat, smallMiss : Nat]
Modes == {"osu", "taiko", "catch", "mania"}
Earned(s, mode) ==
    CASE mode \in {"osu", "taiko"} -> s.n300
      [] mode = "catch" -> Sc!Caught(s)
      [] mode = "mania" -> Sc!Worth(s, mode)
Whole(s, mode) == IF mode = "mania" THEN 6 * Sc!Total(s, mode) ELSE Sc!Total(s, mode)
TierOf(s, mode) == Sc!Tier(Earned(s, mode), Whole(s, mode), Sc!Cuts(mode))

LEMMA SameCount == \A set : Sc!Cardinality(set) = Cardinality(set)
BY DEF Sc!Cardinality, Cardinality

LEMMA IntervalSize == \A n \in Nat : IsFiniteSet(1..n) /\ Cardinality(1..n) = n
<1> SUFFICES ASSUME NEW n \in Nat PROVE IsFiniteSet(1..n) /\ Cardinality(1..n) = n
  OBVIOUS
<1> QED
  BY FS_Interval

LEMMA TiersAreFive ==
    ASSUME NEW p \in Int, NEW q \in Int, p <= q, NEW w \in Int, NEW cuts \in [1..4 -> Nat]
    PROVE  Sc!Tier(p, w, cuts) \in 1..5 /\ Sc!Tier(q, w, cuts) \in 1..5 /\ Sc!Tier(q, w, cuts) <= Sc!Tier(p, w, cuts)
<1> DEFINE A == {i \in 1..4 : p * 100 <= w * cuts[i]}
           B == {i \in 1..4 : q * 100 <= w * cuts[i]}
<1>1. B \subseteq A /\ A \subseteq 1..4
  <2>1. ASSUME NEW i \in 1..4, q * 100 <= w * cuts[i] PROVE p * 100 <= w * cuts[i]
    <3>1. cuts[i] \in Int
      OBVIOUS
    <3> DEFINE x == w * cuts[i]
    <3>2. x \in Int
      BY <3>1
    <3>3. q * 100 <= x
      BY <2>1
    <3> HIDE DEF x
    <3>4. p * 100 <= x
      BY <3>2, <3>3
    <3>5. QED
      BY <3>4 DEF x
  <2>2. QED
    BY <2>1
<1>2. Sc!Tier(p, w, cuts) = 1 + Cardinality(A) /\ Sc!Tier(q, w, cuts) = 1 + Cardinality(B)
  <2>1. DOMAIN cuts = 1..4
    OBVIOUS
  <2>2. QED
    BY <2>1, SameCount DEF Sc!Tier
<1> HIDE DEF A, B
<1>3. IsFiniteSet(1..4) /\ Cardinality(1..4) = 4
  BY IntervalSize, Zenon
<1>4. /\ IsFiniteSet(A) /\ IsFiniteSet(B)
      /\ Cardinality(A) <= 4 /\ Cardinality(B) <= Cardinality(A)
  <2>1. IsFiniteSet(A) /\ Cardinality(A) <= Cardinality(1..4)
    BY <1>1, <1>3, FS_Subset, Zenon
  <2>2. IsFiniteSet(B) /\ Cardinality(B) <= Cardinality(A)
    BY <1>1, <2>1, FS_Subset, Zenon
  <2>3. QED
    BY <1>3, <2>1, <2>2
<1>5. Cardinality(A) \in Nat /\ Cardinality(B) \in Nat
  BY <1>4, FS_CardinalityType
<1>6. QED
  BY <1>2, <1>4, <1>5

LEMMA HeightsAre ==
    /\ Sc!Height("D") = 1 /\ Sc!Height("C") = 2 /\ Sc!Height("B") = 3
    /\ Sc!Height("A") = 4 /\ Sc!Height("S") = 5 /\ Sc!Height("X") = 6
BY DEF Sc!Height, Sc!GradeOrder

LEMMA CutsAre ==
    ASSUME NEW mode \in Modes PROVE Sc!Cuts(mode) \in [1..4 -> Nat]
<1>1. CASE mode \in {"osu", "taiko"}
  <2>1. <<90, 80, 70, 60>> \in [1..4 -> Nat]
    OBVIOUS
  <2>2. Sc!Cuts(mode) = <<90, 80, 70, 60>>
    BY <1>1 DEF Sc!Cuts
  <2>3. QED
    BY <2>1, <2>2
<1>2. CASE mode = "catch"
  <2>1. <<98, 94, 90, 85>> \in [1..4 -> Nat]
    OBVIOUS
  <2>2. Sc!Cuts(mode) = <<98, 94, 90, 85>>
    BY <1>2 DEF Sc!Cuts
  <2>3. QED
    BY <2>1, <2>2
<1>3. CASE mode = "mania"
  <2>1. <<95, 90, 80, 70>> \in [1..4 -> Nat]
    OBVIOUS
  <2>2. Sc!Cuts(mode) = <<95, 90, 80, 70>>
    BY <1>3 DEF Sc!Cuts
  <2>3. QED
    BY <2>1, <2>2
<1>4. QED
  BY <1>1, <1>2, <1>3 DEF Modes

LEMMA NumbersOfAPlay ==
    ASSUME NEW s \in Judgements, NEW mode \in Modes
    PROVE  /\ Sc!Total(s, mode) \in Nat /\ Sc!Worth(s, mode) \in Nat
           /\ Earned(s, mode) \in Nat /\ Whole(s, mode) \in Nat
           /\ TierOf(s, mode) \in 1..5
<1>1. Sc!Hundreds(s) \in Nat /\ Sc!Caught(s) \in Nat
  BY DEF Judgements, Sc!Hundreds, Sc!NonZero, Sc!Caught
<1>2. Sc!Total(s, mode) \in Nat /\ Sc!Worth(s, mode) \in Nat
  BY <1>1 DEF Judgements, Modes, Sc!Total, Sc!Worth
<1>3. Earned(s, mode) \in Nat /\ Whole(s, mode) \in Nat
  BY <1>1, <1>2 DEF Judgements, Modes, Earned, Whole
<1>4. TierOf(s, mode) \in 1..5
  BY <1>3, CutsAre, TiersAreFive DEF TierOf
<1>5. QED
  BY <1>2, <1>3, <1>4

(* The height of a grade.                                                   *)
Many50s(s, mode) == mode = "osu" /\ TierOf(s, mode) = 1 /\ s.n50 * 100 > Sc!Total(s, mode)
Missed(s, mode)  == mode \in {"osu", "taiko"} /\ s.miss > 0
HeightOf(s, mode) ==
    IF Earned(s, mode) = Whole(s, mode) THEN 6
    ELSE IF Many50s(s, mode) THEN 4
    ELSE IF Missed(s, mode) THEN IF TierOf(s, mode) = 5 THEN 1 ELSE IF TierOf(s, mode) = 4 THEN 2 ELSE 5 - TierOf(s, mode)
    ELSE 6 - TierOf(s, mode)

LEMMA GradeIsAsHigh ==
    ASSUME NEW s \in Judgements, NEW mode \in Modes
    PROVE  /\ Sc!Height(Sc!StableGrade(s, mode)) = HeightOf(s, mode)
           /\ Sc!StableGrade(s, mode) = "X" <=> Earned(s, mode) = Whole(s, mode)
<1> DEFINE t == TierOf(s, mode)
           grade == Sc!StableGrade(s, mode)
           full == Earned(s, mode) = Whole(s, mode)
           letters == Sc!Letters(s, mode)
<1>1. t \in 1..5
  BY NumbersOfAPlay
<1>2. /\ full => grade = "X"
      /\ ~full /\ Many50s(s, mode) => grade = "A"
      /\ ~full /\ ~Many50s(s, mode) => grade = letters[t]
  BY Zenon DEF Sc!StableGrade, TierOf, Earned, Whole, Many50s
<1>3. letters = IF Missed(s, mode) THEN <<"A", "B", "C", "C", "D">> ELSE <<"S", "A", "B", "C", "D">>
  BY DEF Sc!Letters, Sc!Flawed, Sc!Clean, Missed
<1>4. t = 1 \/ t = 2 \/ t = 3 \/ t = 4 \/ t = 5
  BY <1>1
<1> HIDE DEF t, grade, full, letters
<1>5. ASSUME ~full, ~Many50s(s, mode)
      PROVE  /\ grade # "X"
             /\ Sc!Height(grade) = IF Missed(s, mode) THEN IF t = 5 THEN 1 ELSE IF t = 4 THEN 2 ELSE 5 - t ELSE 6 - t
  BY <1>2, <1>3, <1>4, <1>5, HeightsAre
<1>6. ASSUME full PROVE grade = "X" /\ Sc!Height(grade) = 6
  BY <1>2, <1>6, HeightsAre
<1>7. ASSUME ~full, Many50s(s, mode) PROVE grade # "X" /\ Sc!Height(grade) = 4
  BY <1>2, <1>7, HeightsAre
<1>8. QED
  BY <1>5, <1>6, <1>7 DEF HeightOf, t, grade, full

(* A judgement traded for the next better one; the 100s are under one name. *)
Hundred == {"n100", "ok"}
OneFor(s, a, b) == [s EXCEPT ![a] = @ - 1, ![b] = @ + 1]
Traded(s, mode, hundred, i) == OneFor(s, Sc!Chain(mode, hundred)[i], Sc!Chain(mode, hundred)[i + 1])
NoneBut(s, hundred) == IF hundred = "n100" THEN s.ok = 0 ELSE s.n100 = 0
Change(c, a, b) == IF c = a THEN -1 ELSE IF c = b THEN 1 ELSE 0
Changes(s, t, a, b) ==
    /\ t.geki = s.geki + Change("geki", a, b) /\ t.n300 = s.n300 + Change("n300", a, b)
    /\ t.katu = s.katu + Change("katu", a, b) /\ t.n100 = s.n100 + Change("n100", a, b)
    /\ t.n50 = s.n50 + Change("n50", a, b) /\ t.miss = s.miss + Change("miss", a, b)
    /\ t.ok = s.ok + Change("ok", a, b) /\ t.largeHit = s.largeHit + Change("largeHit", a, b)
    /\ t.smallHit = s.smallHit + Change("smallHit", a, b)
    /\ t.largeMiss = s.largeMiss + Change("largeMiss", a, b)
    /\ t.smallMiss = s.smallMiss + Change("smallMiss", a, b)

LEMMA FieldsTraded ==
    ASSUME NEW s \in Judgements, NEW a \in Counted, NEW b \in Counted, a # b, s[a] > 0
    PROVE  OneFor(s, a, b) \in Judgements /\ Changes(s, OneFor(s, a, b), a, b)
<1>1. OneFor(s, a, b) \in Judgements
  BY DEF Judgements, Counted, OneFor
<1>2. Changes(s, OneFor(s, a, b), a, b)
  BY DEF Judgements, Counted, OneFor, Changes, Change
<1>3. QED
  BY <1>1, <1>2

AllNat(s) ==
    /\ s.geki \in Nat /\ s.n300 \in Nat /\ s.katu \in Nat /\ s.n100 \in Nat /\ s.n50 \in Nat
    /\ s.miss \in Nat /\ s.ok \in Nat /\ s.largeHit \in Nat /\ s.smallHit \in Nat
    /\ s.largeMiss \in Nat /\ s.smallMiss \in Nat

LEMMA CountsAreNat == ASSUME NEW s \in Judgements PROVE AllNat(s)
BY DEF Judgements, AllNat

LEMMA HundredsAre ==
    ASSUME NEW s \in Judgements, NEW hundred \in Hundred, NoneBut(s, hundred)
    PROVE  Sc!Hundreds(s) = s.n100 + s.ok
<1>1. AllNat(s)
  BY CountsAreNat
<1>2. QED
  BY <1>1 DEF Sc!Hundreds, Sc!NonZero, NoneBut, AllNat

(* What a trade changes.                                                    *)
Trades(mode, hundred) ==
    CASE mode = "osu"   -> {<<"miss", "n50">>, <<"n50", hundred>>, <<hundred, "n300">>}
      [] mode = "taiko" -> {<<"miss", hundred>>, <<hundred, "n300">>}
      [] mode = "catch" -> {<<"smallMiss", "smallHit">>}
      [] mode = "mania" -> {<<"miss", "n50">>, <<"n50", hundred>>, <<hundred, "katu">>, <<"katu", "n300">>,
                            <<"n300", "geki">>}
Gains(s, t, mode) ==
    /\ Sc!Total(t, mode) = Sc!Total(s, mode) /\ Sc!Worth(s, mode) <= Sc!Worth(t, mode)
    /\ Earned(s, mode) <= Earned(t, mode)
    /\ Missed(t, mode) => Missed(s, mode)
    /\ mode = "osu" => t.n50 <= s.n50 \/ Missed(s, mode)

OsuNumbers(s) ==
    /\ Sc!Total(s, "osu") = s.n300 + Sc!Hundreds(s) + s.n50 + s.miss
    /\ Sc!Worth(s, "osu") = 6 * s.n300 + 2 * Sc!Hundreds(s) + s.n50
    /\ Earned(s, "osu") = s.n300 /\ (Missed(s, "osu") <=> s.miss > 0)
TaikoNumbers(s) ==
    /\ Sc!Total(s, "taiko") = s.n300 + Sc!Hundreds(s) + s.miss
    /\ Sc!Worth(s, "taiko") = 6 * s.n300 + 3 * Sc!Hundreds(s)
    /\ Earned(s, "taiko") = s.n300 /\ (Missed(s, "taiko") <=> s.miss > 0)
CatchNumbers(s) ==
    /\ Sc!Total(s, "catch") = Earned(s, "catch") + s.largeMiss + s.smallMiss + s.miss
    /\ Sc!Worth(s, "catch") = 6 * Earned(s, "catch")
    /\ Earned(s, "catch") = s.n300 + s.largeHit + s.smallHit /\ ~Missed(s, "catch")
ManiaNumbers(s) ==
    /\ Sc!Total(s, "mania") = s.geki + s.n300 + s.katu + Sc!Hundreds(s) + s.n50 + s.miss
    /\ Sc!Worth(s, "mania") = 6 * (s.geki + s.n300) + 4 * s.katu + 2 * Sc!Hundreds(s) + s.n50
    /\ Earned(s, "mania") = Sc!Worth(s, "mania") /\ ~Missed(s, "mania")

LEMMA NumbersByMode == \A s : OsuNumbers(s) /\ TaikoNumbers(s) /\ CatchNumbers(s) /\ ManiaNumbers(s)
BY DEF OsuNumbers, TaikoNumbers, CatchNumbers, ManiaNumbers, Sc!Total, Sc!Worth, Sc!Caught, Earned, Missed

LEMMA TradesAreGains ==
    ASSUME NEW s \in Judgements, NEW t \in Judgements, NEW mode \in Modes, NEW hundred \in Hundred,
           NoneBut(s, hundred), NEW a, NEW b, <<a, b>> \in Trades(mode, hundred), Changes(s, t, a, b)
    PROVE  Gains(s, t, mode)
<1> DEFINE Trade(x, y) == a = x /\ b = y
<1>7. AllNat(s) /\ AllNat(t)
  BY CountsAreNat
<1>8. Sc!Hundreds(s) = s.n100 + s.ok /\ Sc!Hundreds(t) = t.n100 + t.ok
  <2>1. NoneBut(t, hundred)
    BY <1>7 DEF NoneBut, Hundred, Changes, Change, AllNat, Trades, Modes
  <2>2. QED
    BY <2>1, HundredsAre
<1>6. Sc!Hundreds(s) \in Nat /\ Sc!Hundreds(t) \in Nat
  BY <1>7, <1>8 DEF AllNat
<1>9. ASSUME mode = "osu" PROVE Gains(s, t, mode)
  <2>0. OsuNumbers(s) /\ OsuNumbers(t)
    BY NumbersByMode
  <2>1. CASE Trade("miss", "n50")
    <3>1. /\ t.n300 = s.n300 /\ Sc!Hundreds(t) = Sc!Hundreds(s) /\ t.n50 = s.n50 + 1
          /\ t.miss = s.miss - 1
      BY <1>7, <1>8, <2>1 DEF Changes, Change, AllNat, Hundred
    <3>2. QED
      BY <1>6, <1>7, <1>9, <2>0, <3>1 DEF Gains, OsuNumbers, AllNat
  <2>2. CASE Trade("n50", hundred)
    <3>1. /\ t.n300 = s.n300 /\ Sc!Hundreds(t) = Sc!Hundreds(s) + 1 /\ t.n50 = s.n50 - 1
          /\ t.miss = s.miss
      BY <1>7, <1>8, <2>2 DEF Changes, Change, AllNat, Hundred
    <3>2. QED
      BY <1>6, <1>7, <1>9, <2>0, <3>1 DEF Gains, OsuNumbers, AllNat
  <2>3. CASE Trade(hundred, "n300")
    <3>1. /\ t.n300 = s.n300 + 1 /\ Sc!Hundreds(t) = Sc!Hundreds(s) - 1 /\ t.n50 = s.n50
          /\ t.miss = s.miss
      BY <1>7, <1>8, <2>3 DEF Changes, Change, AllNat, Hundred
    <3>2. QED
      BY <1>6, <1>7, <1>9, <2>0, <3>1 DEF Gains, OsuNumbers, AllNat
  <2>4. QED
    BY <1>9, <2>1, <2>2, <2>3 DEF Trades
<1>10. ASSUME mode = "taiko" PROVE Gains(s, t, mode)
  <2>0. TaikoNumbers(s) /\ TaikoNumbers(t)
    BY NumbersByMode
  <2>1. CASE Trade("miss", hundred)
    <3>1. /\ t.n300 = s.n300 /\ Sc!Hundreds(t) = Sc!Hundreds(s) + 1 /\ t.miss = s.miss - 1
      BY <1>7, <1>8, <2>1 DEF Changes, Change, AllNat, Hundred
    <3>2. QED
      BY <1>6, <1>7, <1>10, <2>0, <3>1 DEF Gains, TaikoNumbers, AllNat
  <2>2. CASE Trade(hundred, "n300")
    <3>1. /\ t.n300 = s.n300 + 1 /\ Sc!Hundreds(t) = Sc!Hundreds(s) - 1 /\ t.miss = s.miss
      BY <1>7, <1>8, <2>2 DEF Changes, Change, AllNat, Hundred
    <3>2. QED
      BY <1>6, <1>7, <1>10, <2>0, <3>1 DEF Gains, TaikoNumbers, AllNat
  <2>3. QED
    BY <1>10, <2>1, <2>2 DEF Trades
<1>11. ASSUME mode = "catch" PROVE Gains(s, t, mode)
  <2>0. CatchNumbers(s) /\ CatchNumbers(t)
    BY NumbersByMode
  <2>1. CASE Trade("smallMiss", "smallHit")
    <3>1. /\ t.n300 = s.n300 /\ t.largeHit = s.largeHit /\ t.smallHit = s.smallHit + 1
          /\ t.largeMiss = s.largeMiss /\ t.smallMiss = s.smallMiss - 1 /\ t.miss = s.miss
      BY <1>7, <1>8, <2>1 DEF Changes, Change, AllNat, Hundred
    <3>2. QED
      BY <1>6, <1>7, <1>11, <2>0, <3>1 DEF Gains, CatchNumbers, AllNat
  <2>2. QED
    BY <1>11, <2>1 DEF Trades
<1>12. ASSUME mode = "mania" PROVE Gains(s, t, mode)
  <2>0. ManiaNumbers(s) /\ ManiaNumbers(t)
    BY NumbersByMode
  <2>1. CASE Trade("miss", "n50")
    <3>1. /\ t.geki = s.geki /\ t.n300 = s.n300 /\ t.katu = s.katu
          /\ Sc!Hundreds(t) = Sc!Hundreds(s) /\ t.n50 = s.n50 + 1 /\ t.miss = s.miss - 1
      BY <1>7, <1>8, <2>1 DEF Changes, Change, AllNat, Hundred
    <3>2. QED
      BY <1>6, <1>7, <1>12, <2>0, <3>1 DEF Gains, ManiaNumbers, AllNat
  <2>2. CASE Trade("n50", hundred)
    <3>1. /\ t.geki = s.geki /\ t.n300 = s.n300 /\ t.katu = s.katu
          /\ Sc!Hundreds(t) = Sc!Hundreds(s) + 1 /\ t.n50 = s.n50 - 1 /\ t.miss = s.miss
      BY <1>7, <1>8, <2>2 DEF Changes, Change, AllNat, Hundred
    <3>2. QED
      BY <1>6, <1>7, <1>12, <2>0, <3>1 DEF Gains, ManiaNumbers, AllNat
  <2>3. CASE Trade(hundred, "katu")
    <3>1. /\ t.geki = s.geki /\ t.n300 = s.n300 /\ t.katu = s.katu + 1
          /\ Sc!Hundreds(t) = Sc!Hundreds(s) - 1 /\ t.n50 = s.n50 /\ t.miss = s.miss
      BY <1>7, <1>8, <2>3 DEF Changes, Change, AllNat, Hundred
    <3>2. QED
      BY <1>6, <1>7, <1>12, <2>0, <3>1 DEF Gains, ManiaNumbers, AllNat
  <2>4. CASE Trade("katu", "n300")
    <3>1. /\ t.geki = s.geki /\ t.n300 = s.n300 + 1 /\ t.katu = s.katu - 1
          /\ Sc!Hundreds(t) = Sc!Hundreds(s) /\ t.n50 = s.n50 /\ t.miss = s.miss
      BY <1>7, <1>8, <2>4 DEF Changes, Change, AllNat, Hundred
    <3>2. QED
      BY <1>6, <1>7, <1>12, <2>0, <3>1 DEF Gains, ManiaNumbers, AllNat
  <2>5. CASE Trade("n300", "geki")
    <3>1. /\ t.geki = s.geki + 1 /\ t.n300 = s.n300 - 1 /\ t.katu = s.katu
          /\ Sc!Hundreds(t) = Sc!Hundreds(s) /\ t.n50 = s.n50 /\ t.miss = s.miss
      BY <1>7, <1>8, <2>5 DEF Changes, Change, AllNat, Hundred
    <3>2. QED
      BY <1>6, <1>7, <1>12, <2>0, <3>1 DEF Gains, ManiaNumbers, AllNat
  <2>6. QED
    BY <1>12, <2>1, <2>2, <2>3, <2>4, <2>5 DEF Trades
<1>13. QED
  BY <1>9, <1>10, <1>11, <1>12 DEF Modes

LEMMA TradesOfChain ==
    ASSUME NEW mode \in Modes, NEW hundred \in Hundred, NEW i \in 1 .. Len(Sc!Chain(mode, hundred)) - 1
    PROVE  LET a == Sc!Chain(mode, hundred)[i]
               b == Sc!Chain(mode, hundred)[i + 1]
           IN  <<a, b>> \in Trades(mode, hundred) /\ a \in Counted /\ b \in Counted /\ a # b
<1> DEFINE chain == Sc!Chain(mode, hundred)
           a == chain[i]
           b == chain[i + 1]
<1>1. /\ mode = "osu" => chain = <<"miss", "n50", hundred, "n300">>
      /\ mode = "taiko" => chain = <<"miss", hundred, "n300">>
      /\ mode = "catch" => chain = <<"smallMiss", "smallHit">>
      /\ mode = "mania" => chain = <<"miss", "n50", hundred, "katu", "n300", "geki">>
  BY DEF Sc!Chain
<1>2. /\ Len(<<"miss", "n50", hundred, "n300">>) = 4 /\ Len(<<"miss", hundred, "n300">>) = 3
      /\ Len(<<"smallMiss", "smallHit">>) = 2 /\ Len(<<"miss", "n50", hundred, "katu", "n300", "geki">>) = 6
  OBVIOUS
<1>3. i \in 1 .. Len(chain) - 1
  OBVIOUS
<1> HIDE DEF chain
<1>4. <<a, b>> \in Trades(mode, hundred)
  <2>1. CASE mode = "osu"
    <3>1. i \in 1 .. Len(chain) - 1 /\ Len(chain) = 4
      BY <1>1, <1>2, <1>3, <2>1
    <3>2. i = 1 \/ i = 2 \/ i = 3
      BY <3>1
    <3>3. QED
      BY <1>1, <2>1, <3>2 DEF Trades
  <2>2. CASE mode = "taiko"
    <3>1. i \in 1 .. Len(chain) - 1 /\ Len(chain) = 3
      BY <1>1, <1>2, <1>3, <2>2
    <3>2. i = 1 \/ i = 2
      BY <3>1
    <3>3. QED
      BY <1>1, <2>2, <3>2 DEF Trades
  <2>3. CASE mode = "catch"
    <3>1. i \in 1 .. Len(chain) - 1 /\ Len(chain) = 2
      BY <1>1, <1>2, <1>3, <2>3
    <3>2. i = 1
      BY <3>1
    <3>3. QED
      BY <1>1, <2>3, <3>2 DEF Trades
  <2>4. CASE mode = "mania"
    <3>1. i \in 1 .. Len(chain) - 1 /\ Len(chain) = 6
      BY <1>1, <1>2, <1>3, <2>4
    <3>2. i = 1 \/ i = 2 \/ i = 3 \/ i = 4 \/ i = 5
      BY <3>1
    <3>3. QED
      BY <1>1, <2>4, <3>2 DEF Trades
  <2>5. QED
    BY <2>1, <2>2, <2>3, <2>4 DEF Modes
<1> HIDE DEF a, b
<1>5. a \in Counted /\ b \in Counted /\ a # b
  BY <1>4 DEF Trades, Modes, Counted, Hundred
<1>6. QED
  BY <1>4, <1>5 DEF a, b, chain

LEMMA FullIsAll ==
    ASSUME NEW s \in Judgements, NEW mode \in Modes
    PROVE  /\ Earned(s, mode) <= Whole(s, mode)
           /\ Earned(s, mode) = Whole(s, mode) <=> Sc!Worth(s, mode) = 6 * Sc!Total(s, mode)
<1>1. AllNat(s) /\ Sc!Hundreds(s) \in Nat
  BY CountsAreNat DEF AllNat, Sc!Hundreds, Sc!NonZero
<1>2. OsuNumbers(s) /\ TaikoNumbers(s) /\ CatchNumbers(s) /\ ManiaNumbers(s)
  BY NumbersByMode
<1>3. CASE mode = "osu"
  BY <1>1, <1>2, <1>3 DEF OsuNumbers, AllNat, Whole
<1>4. CASE mode = "taiko"
  BY <1>1, <1>2, <1>4 DEF TaikoNumbers, AllNat, Whole
<1>5. CASE mode = "catch"
  BY <1>1, <1>2, <1>5 DEF CatchNumbers, AllNat, Whole
<1>6. CASE mode = "mania"
  BY <1>1, <1>2, <1>6 DEF ManiaNumbers, AllNat, Whole
<1>7. QED
  BY <1>3, <1>4, <1>5, <1>6 DEF Modes

LEMMA GainsAreNotLost ==
    ASSUME NEW s \in Judgements, NEW t \in Judgements, NEW mode \in Modes, Gains(s, t, mode)
    PROVE  HeightOf(s, mode) <= HeightOf(t, mode)
<1> DEFINE i == TierOf(s, mode)
           j == TierOf(t, mode)
           full(x) == Earned(x, mode) = Whole(x, mode)
<1>1. /\ i \in 1..5 /\ j \in 1..5 /\ Whole(s, mode) = Whole(t, mode)
      /\ Earned(s, mode) \in Nat /\ Earned(t, mode) \in Nat /\ Whole(s, mode) \in Nat
      /\ Earned(s, mode) <= Earned(t, mode) /\ Earned(t, mode) <= Whole(t, mode)
  BY NumbersOfAPlay, FullIsAll DEF Gains, Whole
<1>2. j <= i
  BY <1>1, CutsAre, TiersAreFive DEF TierOf
<1>3. full(s) => full(t)
  BY <1>1
<1>4. Missed(t, mode) => Missed(s, mode)
  BY DEF Gains
<1>5. j = 1 /\ Many50s(s, mode) => i = 1
  BY DEF Many50s
<1>6. Many50s(t, mode) /\ ~Missed(s, mode) /\ ~Many50s(s, mode) => i # 1
  <2>1. SUFFICES ASSUME Many50s(t, mode), ~Missed(s, mode), i = 1 PROVE Many50s(s, mode)
    OBVIOUS
  <2>2. /\ mode = "osu" /\ t.n50 * 100 > Sc!Total(s, mode) /\ t.n50 <= s.n50
    BY <2>1 DEF Many50s, Gains
  <2>3. s.n50 \in Nat /\ t.n50 \in Nat /\ Sc!Total(s, mode) \in Nat
    BY NumbersOfAPlay, CountsAreNat DEF AllNat
  <2>4. s.n50 * 100 > Sc!Total(s, mode)
    BY <2>2, <2>3
  <2>5. QED
    BY <2>1, <2>2, <2>4 DEF Many50s
<1>7. /\ Many50s(s, mode) => i = 1
      /\ Many50s(t, mode) => j = 1
  BY DEF Many50s
<1> HIDE DEF i, j, full
<1>8. /\ HeightOf(s, mode) = IF full(s) THEN 6 ELSE IF Many50s(s, mode) THEN 4
                             ELSE IF Missed(s, mode) THEN IF i = 5 THEN 1 ELSE IF i = 4 THEN 2 ELSE 5 - i
                             ELSE 6 - i
      /\ HeightOf(t, mode) = IF full(t) THEN 6 ELSE IF Many50s(t, mode) THEN 4
                             ELSE IF Missed(t, mode) THEN IF j = 5 THEN 1 ELSE IF j = 4 THEN 2 ELSE 5 - j
                             ELSE 6 - j
  BY DEF HeightOf, i, j, full
<1>9. QED
  BY <1>1, <1>2, <1>3, <1>4, <1>6, <1>7, <1>8

(* For every play: the best grade is for full accuracy only, and a better   *)
(* judgement in the place of a worse one lowers neither grade nor accuracy  *)
(* (get_stable_rank, get_stable_accuracy), if only one of the two names of  *)
(* a 100 is used.                                                           *)
THEOREM GradesAlwaysFollowPlay ==
    ASSUME NEW s \in Judgements, NEW mode \in Modes, NEW hundred \in Hundred, NoneBut(s, hundred)
    PROVE  Sc!GradesFollowPlay(s, mode, hundred)
<1> DEFINE chain == Sc!Chain(mode, hundred)
           better(i) == OneFor(s, chain[i], chain[i + 1])
<1>1. Sc!StableGrade(s, mode) = "X" <=> Sc!Worth(s, mode) = 6 * Sc!Total(s, mode)
  BY GradeIsAsHigh, FullIsAll
<1>2. ASSUME NEW i \in 1 .. Len(chain) - 1, s[chain[i]] > 0
      PROVE  /\ Sc!Height(Sc!StableGrade(s, mode)) <= Sc!Height(Sc!StableGrade(better(i), mode))
             /\ Sc!Worth(s, mode) <= Sc!Worth(better(i), mode)
  <2> DEFINE a == chain[i]
             b == chain[i + 1]
             t == better(i)
  <2>1. <<a, b>> \in Trades(mode, hundred) /\ a \in Counted /\ b \in Counted /\ a # b
    BY TradesOfChain
  <2>2. s[a] > 0 /\ t = OneFor(s, a, b)
    BY <1>2
  <2> HIDE DEF a, b, t
  <2>3. t \in Judgements /\ Changes(s, t, a, b)
    BY <2>1, <2>2, FieldsTraded
  <2>4. Gains(s, t, mode)
    BY <2>1, <2>3, TradesAreGains
  <2>5. HeightOf(s, mode) <= HeightOf(t, mode)
    BY <2>3, <2>4, GainsAreNotLost
  <2>6. /\ Sc!Height(Sc!StableGrade(s, mode)) <= Sc!Height(Sc!StableGrade(t, mode))
        /\ Sc!Worth(s, mode) <= Sc!Worth(t, mode)
    BY <2>3, <2>4, <2>5, GradeIsAsHigh DEF Gains
  <2>7. QED
    BY <2>6 DEF t
<1>3. QED
  BY <1>1, <1>2, Zenon DEF Sc!GradesFollowPlay, OneFor

------------------------------------------------------------------------------
(* Counts: what the calculator is given of a play.                          *)

(* For every play of which only one name of a 100 is used: the calculator   *)
(* is given each judgement once (api_score_to_score, calculate_pp_breakdown), *)
(* but for the plays of mania that EveryJudgementCounts leaves out.         *)
THEOREM JudgementsAlwaysCount ==
    ASSUME NEW api, api.stats \in Judgements, NEW mode \in Modes, NEW hundred \in Hundred,
           NoneBut(api.stats, hundred)
    PROVE  Sc!EveryJudgementCounts(api, mode)
<1> DEFINE s == api.stats
           x == Sc!Converted(api, mode)
           given == Sc!CalculatorInput(x)
<1>1. AllNat(s) /\ Sc!Hundreds(s) = s.n100 + s.ok
  BY CountsAreNat, HundredsAre
<1>2. s.n100 = 0 \/ s.ok = 0
  BY DEF NoneBut
<1>3. x.counts = Sc!ShownCounts(s, mode) /\ x.passed = api.passed
  BY DEF Sc!Converted
<1>4. SUFFICES ASSUME api.passed, mode # "catch", ~(mode = "mania" /\ s.katu = 0 /\ s.ok > 0)
               PROVE  given.n300 + given.n100 + given.miss + (IF mode = "taiko" THEN 0 ELSE given.n50)
                         + (IF mode = "mania" THEN given.geki + given.katu ELSE 0) = Sc!Total(s, mode)
  BY DEF Sc!EveryJudgementCounts
<1> HIDE DEF x
<1>5. /\ given.n300 = x.counts.n300 /\ given.n100 = x.counts.n100 /\ given.n50 = x.counts.n50
      /\ given.geki = x.counts.geki /\ given.katu = x.counts.katu /\ given.miss = x.counts.miss
  BY <1>3, <1>4 DEF Sc!CalculatorInput
<1>6. LET c == Sc!ShownCounts(s, mode)
      IN  /\ c.n300 = s.n300 /\ c.n100 = Sc!NonZero(s.ok, s.n100) /\ c.n50 = s.n50 /\ c.miss = s.miss
          /\ c.geki = s.geki /\ c.katu = IF mode = "mania" THEN Sc!NonZero(s.katu, s.ok) ELSE s.katu
  BY <1>4 DEF Sc!ShownCounts, Judgements
<1> HIDE DEF given, s
<1>7. Sc!NonZero(s.ok, s.n100) = s.n100 + s.ok
  BY <1>1, <1>2 DEF Sc!NonZero, AllNat
<1>8. /\ given.n300 = s.n300 /\ given.n100 = s.n100 + s.ok /\ given.n50 = s.n50 /\ given.miss = s.miss
      /\ given.geki = s.geki
      /\ (mode = "mania" => given.katu = s.katu)
  BY <1>1, <1>2, <1>3, <1>4, <1>5, <1>6, <1>7 DEF Sc!NonZero, AllNat
<1>9. OsuNumbers(s) /\ TaikoNumbers(s) /\ ManiaNumbers(s)
  BY NumbersByMode
<1>10. CASE mode = "osu"
  BY <1>1, <1>8, <1>9, <1>10 DEF OsuNumbers, AllNat
<1>11. CASE mode = "taiko"
  BY <1>1, <1>8, <1>9, <1>11 DEF TaikoNumbers, AllNat
<1>12. CASE mode = "mania"
  BY <1>1, <1>8, <1>9, <1>12 DEF ManiaNumbers, AllNat
<1>13. QED
  BY <1>4, <1>10, <1>11, <1>12 DEF Modes

------------------------------------------------------------------------------
(* What is told of a score, and what becomes of it.                         *)
MapFields == {"id", "set", "version", "status", "stars", "bpm", "ar", "od", "cs", "hp", "length", "combo"}
IsMap(m) == m = [k \in MapFields |-> m[k]] /\ m.stars \in Nat
ScoreFields == {"id", "map", "lazer", "passed", "artist", "title", "creator", "cover", "fav", "plays",
                "value", "accuracy", "rank", "mods", "combo", "pp", "breakdown", "perfect", "counts"}
IsScore(s) == s = [k \in ScoreFields |-> s[k]] /\ IsMap(s.map)
Keeps(told, kept, none) == told # none => kept = told

(* The map of a score once the one asked for has filled it.                 *)
Filled(own, map) ==
    [map EXCEPT !.id = own.id,
                !.stars = IF own.stars > 0 THEN own.stars ELSE @,
                !.version = IF own.version = "" THEN @ ELSE own.version,
                !.status = IF own.status = "" THEN @ ELSE own.status,
                !.set = IF own.set = 0 THEN @ ELSE own.set]

LEMMA MapIsFilled ==
    ASSUME NEW own, IsMap(own), NEW map, IsMap(map)
    PROVE  LET new == Filled(own, map)
           IN  /\ IsMap(new) /\ new.id = own.id /\ Keeps(own.version, new.version, "")
               /\ Keeps(own.status, new.status, "") /\ Keeps(own.set, new.set, 0)
               /\ Keeps(own.stars, new.stars, 0) /\ Filled(new, map) = new
<1> DEFINE new == Filled(own, map)
<1>1. /\ IsMap(new) /\ new.id = own.id
      /\ new.version = (IF own.version = "" THEN map.version ELSE own.version)
      /\ new.status = (IF own.status = "" THEN map.status ELSE own.status)
      /\ new.set = (IF own.set = 0 THEN map.set ELSE own.set)
      /\ new.stars = (IF own.stars > 0 THEN own.stars ELSE map.stars)
  BY Zenon DEF IsMap, MapFields, Filled
<1>3. Filled(new, map) = new
  BY <1>1, Zenon DEF Filled, IsMap, MapFields
<1>4. own.stars \in Nat
  BY DEF IsMap
<1>5. Keeps(own.stars, new.stars, 0)
  <2>1. own.stars # 0 => own.stars > 0
    BY <1>4
  <2>2. QED
    BY <1>1, <2>1, Zenon DEF Keeps
<1>6. Keeps(own.version, new.version, "") /\ Keeps(own.status, new.status, "") /\ Keeps(own.set, new.set, 0)
  BY <1>1, Zenon DEF Keeps
<1> HIDE DEF new
<1>7. QED
  BY <1>1, <1>3, <1>5, <1>6, Zenon DEF new

SameBut(s, t, fields) == \A k \in ScoreFields \ fields : t[k] = s[k]

LEMMA MapsAreFilled ==
    ASSUME NEW s, IsScore(s), NEW map, map = Nil \/ IsMap(map)
    PROVE  LET t == Sc!MapFilled(s, map)
           IN  /\ IsScore(t) /\ SameBut(s, t, {"map"}) /\ t.map.id = s.map.id
               /\ Keeps(s.map.version, t.map.version, "") /\ Keeps(s.map.status, t.map.status, "")
               /\ Keeps(s.map.set, t.map.set, 0) /\ Keeps(s.map.stars, t.map.stars, 0)
               /\ \A u : IsScore(u) /\ u.map = t.map => Sc!MapFilled(u, map) = u
<1> DEFINE t == Sc!MapFilled(s, map)
           kept == ~Sc!Incomplete(s.map) \/ map = Nil
<1>1. CASE kept
  <2>1. t = s
    BY <1>1 DEF Sc!MapFilled
  <2>2. \A u : u.map = s.map => Sc!MapFilled(u, map) = u
    BY <1>1, Zenon DEF Sc!MapFilled
  <2>3. QED
    BY <2>1, <2>2, Zenon DEF SameBut, Keeps
<1>2. CASE ~kept
  <2>1. IsMap(map) /\ IsMap(s.map)
    BY <1>2 DEF IsScore
  <2> DEFINE new == Filled(s.map, map)
  <2>2. t = [s EXCEPT !.map = new]
    BY <1>2, Zenon DEF Sc!MapFilled, Filled
  <2>3. /\ IsMap(new) /\ new.id = s.map.id /\ Keeps(s.map.version, new.version, "")
        /\ Keeps(s.map.status, new.status, "") /\ Keeps(s.map.set, new.set, 0)
        /\ Keeps(s.map.stars, new.stars, 0) /\ Filled(new, map) = new
    BY <2>1, MapIsFilled, Zenon
  <2> HIDE DEF new, t
  <2>4. s = [k \in ScoreFields |-> s[k]]
    BY Zenon DEF IsScore
  <2>5. t = [k \in ScoreFields |-> IF k = "map" THEN new ELSE s[k]]
    BY <2>2, <2>4 DEF ScoreFields
  <2>6. t.map = new /\ SameBut(s, t, {"map"}) /\ t = [k \in ScoreFields |-> t[k]]
    BY <2>5 DEF SameBut, ScoreFields
  <2>7. IsScore(t)
    BY <2>3, <2>6, Zenon DEF IsScore
  <2>8. ASSUME NEW u, IsScore(u), u.map = t.map PROVE Sc!MapFilled(u, map) = u
    <3>1. u = [k \in ScoreFields |-> u[k]] /\ "map" \in ScoreFields
      BY <2>8 DEF IsScore, ScoreFields
    <3>2. [u EXCEPT !.map = Filled(u.map, map)] = u
      <4>1. Filled(u.map, map) = u.map
        BY <2>3, <2>6, <2>8, Zenon
      <4>2. [u EXCEPT !.map = u.map] = u
        BY <3>1
      <4>3. QED
        BY <4>1, <4>2, Zenon
    <3>3. Sc!MapFilled(u, map) = u \/ Sc!MapFilled(u, map) = [u EXCEPT !.map = Filled(u.map, map)]
      BY Zenon DEF Sc!MapFilled, Filled
    <3>4. QED
      BY <3>2, <3>3, Zenon
  <2>9. QED
    BY <2>3, <2>6, <2>7, <2>8, Zenon DEF t
<1>3. QED
  BY <1>1, <1>2, Zenon

LEMMA SetsAreFilled ==
    ASSUME NEW s, IsScore(s), NEW set, set # Nil => "" \notin {set.artist, set.title, set.cover}
    PROVE  LET t == Sc!SetFilled(s, set)
           IN  /\ IsScore(t) /\ SameBut(s, t, {"artist", "title", "creator", "cover", "fav", "plays"})
               /\ Keeps(s.fav, t.fav, Nil) /\ Keeps(s.cover, t.cover, "")
               /\ set # Nil /\ t.map.set > 0 => "" \notin {t.artist, t.title, t.cover}
               /\ \A u : IsScore(u) /\ SameBut(t, u, {"value"}) => Sc!SetFilled(u, set) = u
<1> DEFINE t == Sc!SetFilled(s, set)
           nameless(x) == x.map.set > 0 /\ "" \in {x.artist, x.title, x.cover}
<1>1. CASE ~nameless(s) \/ set = Nil
  <2>1. t = s
    BY <1>1, Zenon DEF Sc!SetFilled
  <2>2. ASSUME NEW u, SameBut(s, u, {"value"}) PROVE Sc!SetFilled(u, set) = u
    <3>1. u.map = s.map /\ u.artist = s.artist /\ u.title = s.title /\ u.cover = s.cover
      BY <2>2, Zenon DEF SameBut, ScoreFields
    <3>2. QED
      BY <1>1, <3>1, Zenon DEF Sc!SetFilled
  <2>3. QED
    BY <1>1, <2>1, <2>2, Zenon DEF SameBut, Keeps
<1>2. CASE nameless(s) /\ set # Nil
  <2> DEFINE cover == IF s.cover = "" THEN set.cover ELSE s.cover
             fav   == Sc!Or(s.fav, Sc!AboveZero(set.fav))
             plays == Sc!Or(s.plays, Sc!AboveZero(set.plays))
  <2>2. t = [s EXCEPT !.artist = set.artist, !.title = set.title, !.creator = set.creator,
                      !.cover = cover, !.fav = fav, !.plays = plays]
    BY <1>2, Zenon DEF Sc!SetFilled
  <2>3. cover # "" /\ Keeps(s.fav, fav, Nil) /\ Keeps(s.cover, cover, "")
    BY <1>2, Zenon DEF Keeps, Sc!Or
  <2>4. s = [k \in ScoreFields |-> s[k]]
    BY Zenon DEF IsScore
  <2> DEFINE value(k) == CASE k = "artist" -> set.artist [] k = "title" -> set.title [] k = "creator" -> set.creator
                           [] k = "cover" -> cover [] k = "fav" -> fav [] k = "plays" -> plays [] OTHER -> s[k]
  <2> HIDE DEF cover, fav, plays, t
  <2>5. t = [k \in ScoreFields |-> value(k)]
    BY <2>2, <2>4, Zenon DEF ScoreFields
  <2>6. /\ t.artist = set.artist /\ t.title = set.title /\ t.creator = set.creator /\ t.cover = cover
        /\ t.fav = fav /\ t.plays = plays /\ t.map = s.map
        /\ SameBut(s, t, {"artist", "title", "creator", "cover", "fav", "plays"})
        /\ t = [k \in ScoreFields |-> t[k]]
    BY <2>5, Zenon DEF SameBut, ScoreFields
  <2>7. IsScore(t)
    BY <2>6, Zenon DEF IsScore
  <2>8. ASSUME NEW u, IsScore(u), SameBut(t, u, {"value"}) PROVE Sc!SetFilled(u, set) = u
    <3>1. /\ u.artist = set.artist /\ u.title = set.title /\ u.creator = set.creator /\ u.cover = cover
          /\ u.fav = fav /\ u.plays = plays
      BY <2>6, <2>8, Zenon DEF SameBut, ScoreFields
    <3>2. "" \notin {u.artist, u.title, u.cover}
      BY <1>2, <2>3, <3>1, Zenon
    <3>3. QED
      BY <3>2, Zenon DEF Sc!SetFilled
  <2>9. "" \notin {t.artist, t.title, t.cover}
    BY <1>2, <2>3, <2>6, Zenon
  <2>10. QED
    BY <2>3, <2>6, <2>7, <2>8, <2>9, Zenon DEF t
<1>3. QED
  BY <1>1, <1>2, Zenon

LEMMA ValuesAreFilled ==
    ASSUME NEW s, IsScore(s), s.value \in Int, NEW detail \in Int \union {Nil}
    PROVE  LET t == Sc!ValueFilled(s, detail)
           IN  /\ IsScore(t) /\ SameBut(s, t, {"value"}) /\ Keeps(s.value, t.value, 0)
               /\ Sc!ValueFilled(t, detail) = t
<1> DEFINE t == Sc!ValueFilled(s, detail)
           missing(x) == x.value = 0 /\ x.id > 0 /\ Sc!Or(detail, 0) > 0
<1>1. CASE ~missing(s)
  <2>1. t = s
    BY <1>1, Zenon DEF Sc!ValueFilled
  <2>2. QED
    BY <2>1, Zenon DEF SameBut, Keeps
<1>2. CASE missing(s)
  <2>1. detail # 0
    BY <1>2, NilAssumption DEF Sc!Or
  <2>2. t = [s EXCEPT !.value = detail] /\ s = [k \in ScoreFields |-> s[k]]
    BY <1>2, Zenon DEF Sc!ValueFilled, IsScore
  <2> HIDE DEF t
  <2>3. t = [k \in ScoreFields |-> IF k = "value" THEN detail ELSE s[k]]
    BY <2>2 DEF ScoreFields
  <2>4. t.value = detail /\ SameBut(s, t, {"value"}) /\ t.map = s.map /\ t = [k \in ScoreFields |-> t[k]]
    BY <2>3 DEF SameBut, ScoreFields
  <2>5. IsScore(t)
    BY <2>4, Zenon DEF IsScore
  <2>6. Sc!ValueFilled(t, detail) = t
    BY <2>1, <2>4, Zenon DEF Sc!ValueFilled
  <2>7. QED
    BY <1>2, <2>4, <2>5, <2>6, Zenon DEF Keeps, t
<1>3. QED
  BY <1>1, <1>2

(* The stars, the breakdown and the pp of the calculator.                   *)
LEMMA ScoresAreEnriched ==
    ASSUME NEW s, IsScore(s), s.pp \in Int \union {Nil}, NEW calc, calc # Nil => calc.stars \in Nat \ {0}
    PROVE  LET t == Sc!Enriched(s, calc, Nil)
           IN  /\ SameBut(s, t, {"map", "breakdown", "pp"}) /\ Keeps(s.pp, t.pp, Nil)
               /\ t.map.id = s.map.id /\ (s.map.stars > 0 => t.map.stars > 0)
<1> DEFINE t == Sc!Enriched(s, calc, Nil)
           stars == IF calc = Nil THEN s.map.stars ELSE calc.stars
           pp == IF s.pp = Nil /\ calc # Nil /\ calc.total > 0 THEN calc.total ELSE s.pp
           own == [s.map EXCEPT !.stars = stars]
<1>1. CASE s.map.id <= 0
  <2>1. t = s
    BY <1>1, Zenon DEF Sc!Enriched
  <2>2. QED
    BY <2>1, Zenon DEF SameBut, Keeps
<1>2. CASE ~(s.map.id <= 0)
  <2>1. t = [s EXCEPT !.breakdown = calc, !.perfect = s.perfect, !.map.stars = stars, !.pp = pp]
    <3>1. ~(Sc!Or(Nil, 0) > 0)
      BY DEF Sc!Or
    <3>2. QED
      BY <1>2, <3>1 DEF Sc!Enriched
  <2>2. s = [k \in ScoreFields |-> s[k]] /\ IsMap(s.map)
    BY Zenon DEF IsScore
  <2>3. own.id = s.map.id /\ own.stars = stars
    BY <2>2 DEF IsMap, MapFields
  <2>4. s.map.stars > 0 => stars > 0
    OBVIOUS
  <2>5. Keeps(s.pp, pp, Nil)
    BY Zenon DEF Keeps
  <2> DEFINE value(k) == CASE k = "breakdown" -> calc [] k = "map" -> own [] k = "pp" -> pp [] OTHER -> s[k]
  <2>6. t = [k \in ScoreFields |-> value(k)]
    <3> HIDE DEF stars, pp, t
    <3>1. t = [[[s EXCEPT !.breakdown = calc] EXCEPT !.map = own] EXCEPT !.pp = pp]
      BY <2>1, <2>2, Zenon DEF ScoreFields
    <3> HIDE DEF own
    <3>2. QED
      BY <2>2, <3>1, Zenon DEF ScoreFields
  <2> HIDE DEF stars, pp, own, t
  <2>7. t.map = own /\ t.pp = pp /\ SameBut(s, t, {"map", "breakdown", "pp"})
    BY <2>6 DEF SameBut, ScoreFields
  <2>8. QED
    BY <2>3, <2>4, <2>5, <2>7, Zenon DEF t
<1>3. QED
  BY <1>1, <1>2

LEMMA GradesOfStable ==
    ASSUME NEW s \in Judgements, NEW mode \in Modes PROVE Sc!StableGrade(s, mode) \in {"X", "S", "A", "B", "C", "D"}
<1> DEFINE earned == Earned(s, mode)
           whole == Whole(s, mode)
           tier == TierOf(s, mode)
<1>1. tier \in 1..5
  BY NumbersOfAPlay
<1>2. Sc!StableGrade(s, mode) = (CASE earned = whole -> "X"
          [] earned # whole /\ mode = "osu" /\ tier = 1 /\ s.n50 * 100 > Sc!Total(s, mode) -> "A"
          [] OTHER -> Sc!Letters(s, mode)[tier])
  BY DEF Sc!StableGrade, Earned, Whole, TierOf, Modes
<1> HIDE DEF earned, whole, tier
<1>3. Sc!Letters(s, mode)[tier] \in {"S", "A", "B", "C", "D"}
  BY <1>1 DEF Sc!Letters, Sc!Clean, Sc!Flawed
<1>4. QED
  BY <1>2, <1>3, Zenon

(* What is asked of a score as the API tells it.                            *)
IsTold(api) ==
    /\ (api.map = Nil \/ IsMap(api.map)) /\ api.mapId \in Int /\ api.setId \in Int
    /\ api.stats \in Judgements /\ api.passed \in BOOLEAN /\ (api.passed => api.rank # "F")
    /\ api.score \in Int /\ api.total \in Int \union {Nil} /\ api.legacy \in Int \union {Nil}
    /\ api.pp \in Int \union {Nil}

LEMMA MapsAreIdentified ==
    ASSUME NEW m, IsMap(m), NEW id, NEW set PROVE IsMap([m EXCEPT !.id = id, !.set = set])
<1> DEFINE new == [m EXCEPT !.id = id, !.set = set]
<1>1. new = [k \in MapFields |-> IF k = "set" THEN set ELSE IF k = "id" THEN id ELSE m[k]]
  BY Zenon DEF IsMap, MapFields
<1> HIDE DEF new
<1>2. new = [k \in MapFields |-> new[k]] /\ new.stars = m.stars
  BY <1>1 DEF MapFields
<1>3. QED
  BY <1>2, Zenon DEF IsMap, new

LEMMA ScoresAreConverted ==
    ASSUME NEW api, IsTold(api), NEW mode \in Modes
    PROVE  LET s == Sc!Converted(api, mode)
           IN  /\ IsScore(s) /\ s.value \in Int /\ s.pp \in Int \union {Nil}
               /\ (s.rank = "F" <=> ~api.passed)
<1> DEFINE s == Sc!Converted(api, mode)
           lazer == Sc!IsLazer(api)
           map == Sc!Or(api.map, [Sc!NoMap EXCEPT !.id = api.mapId, !.set = api.setId])
           set == Sc!Or(api.set, Sc!NoSet)
           stable == Sc!StableAccuracy(api.stats, mode, api.passed)
           hidden == api.mods \intersect {"HD", "FL", "PF"} # {}
           told == Sc!StableRank(api.stats, mode, api.passed, hidden)
           rank == CASE lazer /\ api.passed  -> api.rank
                     [] lazer /\ ~api.passed -> "F"
                     [] ~lazer -> told
           fav == Sc!AboveZero(set.fav)
           plays == Sc!AboveZero(set.plays)
           value == Sc!ScoreValue(api)
           accuracy == IF ~lazer /\ stable[1] > 0 THEN stable ELSE api.accuracy
           mods == IF lazer THEN api.mods ELSE api.mods \ {"CL"}
           counts == Sc!ShownCounts(api.stats, mode)
<1>1. s = [id |-> api.id, map |-> map, lazer |-> lazer, passed |-> api.passed,
           artist |-> set.artist, title |-> set.title, creator |-> set.creator, cover |-> set.cover,
           fav |-> fav, plays |-> plays, value |-> value, accuracy |-> accuracy, rank |-> rank, mods |-> mods,
           combo |-> api.combo, pp |-> api.pp, breakdown |-> Nil, perfect |-> Nil, counts |-> counts]
  BY Zenon DEF Sc!Converted
<1>2. IsMap(map)
  <2>1. IsMap([Sc!NoMap EXCEPT !.id = api.mapId, !.set = api.setId])
    <3>1. Sc!NoMap = [k \in MapFields |-> Sc!NoMap[k]] /\ Sc!NoMap.stars = 0
      BY Zenon DEF Sc!NoMap, MapFields
    <3>2. IsMap(Sc!NoMap)
      BY <3>1 DEF IsMap
    <3>3. QED
      BY <3>2, MapsAreIdentified, Zenon
  <2>2. api.map # Nil => IsMap(api.map)
    BY DEF IsTold
  <2>3. QED
    BY <2>1, <2>2, Zenon DEF Sc!Or
<1>3. value \in Int
  BY NilAssumption DEF IsTold, Sc!ScoreValue, Sc!Or, Sc!Positive
<1>4. rank = "F" <=> ~api.passed
  <2>1. told = "F" <=> ~api.passed
    <3>1. CASE ~api.passed
      BY <3>1, Zenon DEF Sc!StableRank
    <3>2. CASE api.passed
      <4> DEFINE grade == Sc!StableGrade(api.stats, mode)
      <4>1. grade \in {"X", "S", "A", "B", "C", "D"}
        BY GradesOfStable, Zenon DEF IsTold
      <4>2. told = IF hidden /\ grade \in DOMAIN Sc!Silver THEN Sc!Silver[grade] ELSE grade
        BY <3>2, Zenon DEF Sc!StableRank
      <4>3. DOMAIN Sc!Silver = {"S", "X"} /\ Sc!Silver["S"] = "SH" /\ Sc!Silver["X"] = "XH"
        BY DEF Sc!Silver
      <4> HIDE DEF grade, hidden, told
      <4>4. told # "F"
        BY <4>1, <4>2, <4>3
      <4>5. QED
        BY <3>2, <4>4
    <3>3. QED
      BY <3>1, <3>2, Zenon
  <2>2. CASE lazer /\ api.passed
    <3>1. rank = api.rank
      BY <2>2
    <3>2. QED
      BY <2>2, <3>1 DEF IsTold
  <2>3. CASE lazer /\ ~api.passed
    BY <2>3
  <2>4. CASE ~lazer
    BY <2>1, <2>4
  <2>5. QED
    BY <2>2, <2>3, <2>4, Zenon
<1> HIDE DEF s, lazer, map, set, stable, hidden, told, rank, fav, plays, value, accuracy, mods, counts
<1>5. s = [k \in ScoreFields |-> s[k]]
  BY <1>1 DEF ScoreFields
<1>6. s.map = map /\ s.value = value /\ s.rank = rank /\ s.pp = api.pp
  BY <1>1
<1>7. QED
  <2>1. IsScore(s)
    BY <1>2, <1>5, <1>6, Zenon DEF IsScore
  <2>2. api.pp \in Int \union {Nil}
    BY DEF IsTold
  <2>3. QED
    BY <1>3, <1>4, <1>6, <2>1, <2>2, Zenon DEF s

(* Whatever a score is and whatever the answers asked for afterwards say,   *)
(* nothing the API told of it is lost on its way to the card: api_score_to_ *)
(* score, backfill_score_details and the calculation of pp keep each number *)
(* and text that was there, asking once more adds nothing, a set that could *)
(* be had leaves no score without its texts, and exactly the failed scores  *)
(* have the grade of one.  Asked of what is told: a passed score is graded, *)
(* a set has an artist, a title and a cover, and the calculator finds stars.*)
THEOREM NothingIsLost ==
    ASSUME NEW api, IsTold(api), NEW mode \in Modes, NEW map, map = Nil \/ IsMap(map),
           NEW set, set # Nil => "" \notin {set.artist, set.title, set.cover},
           NEW detail \in Int \union {Nil}, NEW calc, calc # Nil => calc.stars \in Nat \ {0}
    PROVE  Sc!NothingToldIsLost(api, mode, map, set, detail, calc)
<1> DEFINE score == Sc!Converted(api, mode)
           mapped == Sc!MapFilled(score, map)
           named == Sc!SetFilled(mapped, set)
           filled == Sc!Backfilled(score, map, set, detail)
           shown == Sc!Enriched(filled, calc, Nil)
<1>0. filled = Sc!ValueFilled(named, detail)
  BY Zenon DEF Sc!Backfilled
<1>1. IsScore(score) /\ score.value \in Int /\ score.pp \in Int \union {Nil} /\ (score.rank = "F" <=> ~api.passed)
  BY ScoresAreConverted, Zenon
<1> HIDE DEF score
<1>2. /\ IsScore(mapped) /\ SameBut(score, mapped, {"map"}) /\ mapped.map.id = score.map.id
      /\ Keeps(score.map.version, mapped.map.version, "") /\ Keeps(score.map.status, mapped.map.status, "")
      /\ Keeps(score.map.set, mapped.map.set, 0) /\ Keeps(score.map.stars, mapped.map.stars, 0)
      /\ \A u : IsScore(u) /\ u.map = mapped.map => Sc!MapFilled(u, map) = u
  BY <1>1, MapsAreFilled, Zenon
<1> HIDE DEF mapped
<1>3. /\ mapped.value = score.value /\ mapped.pp = score.pp /\ mapped.fav = score.fav /\ mapped.rank = score.rank
      /\ mapped.cover = score.cover
  BY <1>2, Zenon DEF SameBut, ScoreFields
<1>4. /\ IsScore(named) /\ SameBut(mapped, named, {"artist", "title", "creator", "cover", "fav", "plays"})
      /\ Keeps(mapped.fav, named.fav, Nil) /\ Keeps(mapped.cover, named.cover, "")
      /\ set # Nil /\ named.map.set > 0 => "" \notin {named.artist, named.title, named.cover}
      /\ \A u : IsScore(u) /\ SameBut(named, u, {"value"}) => Sc!SetFilled(u, set) = u
  BY <1>2, SetsAreFilled, Zenon
<1> HIDE DEF named
<1>5. named.value = mapped.value /\ named.pp = mapped.pp /\ named.rank = mapped.rank /\ named.map = mapped.map
  BY <1>4, Zenon DEF SameBut, ScoreFields
<1>6. named.value \in Int
  BY <1>1, <1>3, <1>5, Zenon
<1>7. /\ IsScore(filled) /\ SameBut(named, filled, {"value"}) /\ Keeps(named.value, filled.value, 0)
      /\ Sc!ValueFilled(filled, detail) = filled
  BY <1>0, <1>4, <1>6, ValuesAreFilled, Zenon
<1> HIDE DEF filled
<1>8. /\ filled.pp = named.pp /\ filled.rank = named.rank /\ filled.map = named.map /\ filled.fav = named.fav
      /\ filled.cover = named.cover /\ filled.artist = named.artist /\ filled.title = named.title
  BY <1>7, Zenon DEF SameBut, ScoreFields
<1>9. filled.pp \in Int \union {Nil}
  BY <1>1, <1>3, <1>5, <1>8, Zenon
<1>10. /\ SameBut(filled, shown, {"map", "breakdown", "pp"}) /\ Keeps(filled.pp, shown.pp, Nil)
       /\ shown.map.id = filled.map.id /\ (filled.map.stars > 0 => shown.map.stars > 0)
  BY <1>7, <1>9, ScoresAreEnriched, Zenon
<1> HIDE DEF shown
<1>11. shown.value = filled.value /\ shown.fav = filled.fav /\ shown.rank = filled.rank
  BY <1>10, Zenon DEF SameBut, ScoreFields
<1>12. Sc!Backfilled(filled, map, set, detail) = filled
  <2>1. Sc!MapFilled(filled, map) = filled
    BY <1>2, <1>5, <1>7, <1>8, Zenon
  <2>2. Sc!SetFilled(filled, set) = filled
    BY <1>4, <1>7, Zenon
  <2>3. QED
    BY <1>7, <2>1, <2>2, Zenon DEF Sc!Backfilled
<1>13. \A k \in {"version", "status"} : Keeps(score.map[k], filled.map[k], "")
  BY <1>2, <1>5, <1>8, Zenon
<1>14. set # Nil /\ filled.map.set > 0 => "" \notin {filled.artist, filled.title, filled.cover}
  BY <1>4, <1>8, Zenon
<1>15. shown.map.id = score.map.id /\ (shown.rank = "F" <=> ~api.passed)
  BY <1>1, <1>2, <1>3, <1>5, <1>8, <1>10, <1>11, Zenon
<1>16. Keeps(score.value, shown.value, 0) /\ Keeps(score.pp, shown.pp, Nil)
  BY <1>3, <1>5, <1>7, <1>8, <1>10, <1>11, Zenon DEF Keeps
<1>17. Keeps(score.fav, shown.fav, Nil) /\ Keeps(score.cover, filled.cover, "")
  BY <1>3, <1>4, <1>8, <1>11, Zenon DEF Keeps
<1>18. Keeps(score.map.set, filled.map.set, 0) /\ Keeps(score.map.stars, filled.map.stars, 0)
  BY <1>2, <1>5, <1>8, Zenon
<1>19. QED
  <2> DEFINE keeps(told, kept, none) == told # none => kept = told
  <2>1. Sc!NothingToldIsLost(api, mode, map, set, detail, calc) =
         (/\ shown.map.id = score.map.id /\ keeps(score.value, shown.value, 0)
          /\ keeps(score.pp, shown.pp, Nil) /\ keeps(score.fav, shown.fav, Nil)
          /\ \A k \in {"version", "status"} : keeps(score.map[k], filled.map[k], "")
          /\ keeps(score.map.set, filled.map.set, 0) /\ keeps(score.map.stars, filled.map.stars, 0)
          /\ keeps(score.cover, filled.cover, "") /\ (filled.map.stars > 0 => shown.map.stars > 0)
          /\ Sc!Backfilled(filled, map, set, detail) = filled
          /\ (set # Nil /\ filled.map.set > 0 => "" \notin {filled.artist, filled.title, filled.cover})
          /\ ((shown.rank = "F") <=> ~api.passed))
    BY Zenon DEF Sc!NothingToldIsLost, score, filled, shown
  <2>2. QED
    BY <1>10, <1>12, <1>13, <1>14, <1>15, <1>16, <1>17, <1>18, <2>1, Zenon DEF Keeps

------------------------------------------------------------------------------
(* For lists of any length whose covers differ: a card shows its own cover  *)
(* or that of a card after it, and no cover is shown twice.                 *)
THEOREM CoversAlwaysMoveUp ==
    ASSUME NEW images, NEW n \in Nat, DOMAIN images = 1..n,
           \A i, j \in 1..n : images[i] = images[j] /\ images[i] # Nil => i = j
    PROVE  Sc!CoversMoveUp(images)
<1> DEFINE K == {i \in 1..n : images[i] # Nil}
           at == InOrder(K, Upward(K))
           c  == Cardinality(K)
           uris == Sc!CoverUris(images)
<1>1. K \in SUBSET (1..n) /\ \A i \in 1..n : i \in K <=> images[i] # Nil
  OBVIOUS
<1>20. uris = [k \in DOMAIN at |-> images[at[k]]]
  BY DEF Sc!CoverUris, Sc!Kept, Sc!Arranged, Sc!InOrder, Sc!Upward, Sc!Cardinality, InOrder, Upward, Cardinality
<1> HIDE DEF K, uris
<1>2. /\ DOMAIN at = 1..c /\ c \in 0..n
      /\ \A k \in 1..c : at[k] \in K /\ at[k] >= k
      /\ \A k, l \in 1..c : k < l => at[k] # at[l]
      /\ \A i \in 1..n : 1..i \subseteq K => i \in 1..c /\ at[i] = i
  BY <1>1, PlacesInOrder
<1>21. Len(images) = n
  OBVIOUS
<1> HIDE DEF at, c
<1>3. \A i \in 1..n : Sc!CoverOfCard(images, i) = IF i \in 1..c THEN images[at[i]] ELSE Nil
  BY <1>2, <1>20 DEF Sc!CoverOfCard, uris
<1>4. ASSUME NEW i \in 1..n, Sc!CoverOfCard(images, i) # Nil
      PROVE  /\ i \in 1..c /\ at[i] \in i..n /\ at[i] \in 1..n /\ images[at[i]] # Nil
             /\ Sc!CoverOfCard(images, i) = images[at[i]]
  <2>1. i \in 1..c /\ Sc!CoverOfCard(images, i) = images[at[i]]
    BY <1>3, <1>4
  <2>2. at[i] \in K /\ at[i] >= i
    BY <1>2, <2>1
  <2>3. at[i] \in 1..n
    BY <1>1, <2>2, Zenon
  <2>4. QED
    BY <1>1, <2>1, <2>2, <2>3
<1>5. ASSUME NEW i \in 1..n, \A j \in 1..i : images[j] # Nil
      PROVE  Sc!CoverOfCard(images, i) = images[i]
  <2>1. 1..i \subseteq K
    BY <1>1, <1>5
  <2>2. QED
    BY <1>2, <1>3, <2>1
<1>6. ASSUME NEW i \in 1..n, NEW j \in 1..i - 1, Sc!CoverOfCard(images, i) # Nil
      PROVE  Sc!CoverOfCard(images, i) # Sc!CoverOfCard(images, j)
  <2>1. SUFFICES ASSUME Sc!CoverOfCard(images, j) # Nil, images[at[i]] = images[at[j]] PROVE FALSE
    BY <1>4, <1>6
  <2>2. at[i] \in 1..n /\ at[j] \in 1..n /\ images[at[i]] # Nil /\ i \in 1..c /\ j \in 1..c
    BY <1>4, <1>6, <2>1
  <2>3. at[i] = at[j]
    BY <2>1, <2>2
  <2>4. QED
    BY <1>2, <2>2, <2>3
<1>7. QED
  BY <1>21, <1>4, <1>5, <1>6 DEF Sc!CoversMoveUp

------------------------------------------------------------------------------
(* Pages of a list that grows while they are asked for.                     *)
Differ(list) == \A i, j \in 1..Len(list) : list[i] = list[j] => i = j
(* Scores may be added to a list anywhere; the others keep their order.     *)
Grown(older, newer) ==
    \E f \in [1..Len(older) -> 1..Len(newer)] :
        /\ \A i, j \in 1..Len(older) : i < j => f[i] < f[j]
        /\ \A i \in 1..Len(older) : newer[f[i]] = older[i]
(* A score is not moved up, and no more are added after it than in all.     *)
Moved(older, newer) ==
    /\ Len(older) <= Len(newer)
    /\ \A i \in 1..Len(older) : \E k \in 1..Len(newer) :
          newer[k] = older[i] /\ i <= k /\ Len(older) - i <= Len(newer) - k

LEMMA GrownIsMoved ==
    ASSUME NEW T, NEW older \in Seq(T), NEW newer \in Seq(T), Grown(older, newer)
    PROVE  Moved(older, newer)
<1> DEFINE m == Len(older)
           l == Len(newer)
<1>1. m \in Nat /\ l \in Nat
  OBVIOUS
<1>2. PICK f \in [1..m -> 1..l] : /\ \A i, j \in 1..m : i < j => f[i] < f[j]
                                  /\ \A i \in 1..m : newer[f[i]] = older[i]
  BY DEF Grown
<1> HIDE DEF m, l
<1>3. \A i \in 0..m : i = 0 \/ i <= f[i]
  <2> DEFINE A == {i \in 0..m : i = 0 \/ i <= f[i]}
  <2>1. 0 \in A
    BY <1>1
  <2>2. ASSUME NEW i \in 1..m, i - 1 \in A PROVE i \in A
    <3>1. f[i] \in 1..l
      BY <1>2
    <3>2. CASE i = 1
      BY <1>1, <3>1, <3>2
    <3>3. CASE i # 1
      <4>1. i - 1 \in 1..m /\ i - 1 < i
        BY <1>1, <3>3
      <4>2. i - 1 <= f[i - 1] /\ f[i - 1] < f[i] /\ f[i - 1] \in 1..l
        BY <1>2, <2>2, <4>1
      <4>3. QED
        BY <1>1, <3>1, <4>2
    <3>4. QED
      BY <3>2, <3>3
  <2> HIDE DEF A
  <2>3. \A i \in 0..m : i \in A
    BY <1>1, <2>1, <2>2, UpTo
  <2>4. QED
    BY <2>3 DEF A
<1>4. \A j \in 0..m : j = m \/ m - (m - j) <= l - f[m - j]
  <2> DEFINE B == {j \in 0..m : j = m \/ j <= l - f[m - j]}
  <2>1. 0 \in B
    <3>1. CASE m = 0
      BY <3>1
    <3>2. CASE m # 0
      <4>1. m \in 1..m
        BY <1>1, <3>2
      <4>2. f[m] \in 1..l /\ m - 0 = m
        BY <1>1, <1>2, <4>1
      <4>3. QED
        BY <1>1, <4>2
    <3>3. QED
      BY <3>1, <3>2
  <2>2. ASSUME NEW j \in 1..m, j - 1 \in B PROVE j \in B
    <3>1. CASE j = m
      BY <1>1, <3>1
    <3>2. CASE j # m
      <4>1. m - j \in 1..m /\ m - (j - 1) \in 1..m /\ m - j < m - (j - 1) /\ j - 1 # m
        BY <1>1, <3>2
      <4>2. f[m - j] < f[m - (j - 1)] /\ f[m - j] \in 1..l /\ f[m - (j - 1)] \in 1..l
        BY <1>2, <4>1
      <4>3. j - 1 <= l - f[m - (j - 1)]
        BY <2>2, <4>1
      <4>4. j <= l - f[m - j]
        BY <1>1, <4>2, <4>3
      <4>5. QED
        BY <1>1, <4>4
    <3>3. QED
      BY <3>1, <3>2
  <2> HIDE DEF B
  <2>3. \A j \in 0..m : j \in B
    BY <1>1, <2>1, <2>2, UpTo
  <2>4. \A j \in 0..m : m - (m - j) = j
    BY <1>1
  <2>5. QED
    BY <2>3, <2>4 DEF B
<1>5. ASSUME NEW i \in 1..m
      PROVE  newer[f[i]] = older[i] /\ f[i] \in 1..l /\ i <= f[i] /\ m - i <= l - f[i]
  <2>1. m - i \in 0..m /\ m - i # m /\ m - (m - i) = i /\ i \in 0..m /\ i # 0
    BY <1>1
  <2>2. m - i <= l - f[i]
    BY <1>4, <2>1
  <2>3. QED
    BY <1>2, <1>3, <2>1, <2>2
<1>6. m <= l
  <2>1. CASE m = 0
    BY <1>1, <2>1
  <2>2. CASE m # 0
    <3>1. m \in 1..m
      BY <1>1, <2>2
    <3>2. f[m] \in 1..l /\ m <= f[m]
      BY <1>5, <3>1
    <3>3. QED
      BY <1>1, <3>2
  <2>3. QED
    BY <2>1, <2>2
<1>7. QED
  <2>1. \A i \in 1..m : \E k \in 1..l : newer[k] = older[i] /\ i <= k /\ m - i <= l - k
    BY <1>5
  <2>2. QED
    BY <1>6, <2>1 DEF Moved, m, l

(* A list moves step by step as it does at once.                            *)
LEMMA MovedTwice ==
    ASSUME NEW T, NEW a \in Seq(T), NEW b \in Seq(T), NEW c \in Seq(T), Moved(a, b), Moved(b, c)
    PROVE  Moved(a, c)
<1>1. Len(a) \in Nat /\ Len(b) \in Nat /\ Len(c) \in Nat
  OBVIOUS
<1>2. Len(a) <= Len(b) /\ Len(b) <= Len(c)
  BY DEF Moved
<1>3. ASSUME NEW i \in 1..Len(a)
      PROVE  \E k \in 1..Len(c) : c[k] = a[i] /\ i <= k /\ Len(a) - i <= Len(c) - k
  <2>1. PICK j \in 1..Len(b) : b[j] = a[i] /\ i <= j /\ Len(a) - i <= Len(b) - j
    BY Zenon DEF Moved
  <2>2. PICK k \in 1..Len(c) : c[k] = b[j] /\ j <= k /\ Len(b) - j <= Len(c) - k
    BY Zenon DEF Moved
  <2>3. c[k] = a[i] /\ i <= k /\ Len(a) - i <= Len(c) - k
    BY <1>1, <2>1, <2>2
  <2>4. QED
    BY <2>3, Zenon
<1>4. QED
  BY <1>1, <1>2, <1>3 DEF Moved
(* The lists of the pages: every two scores of one differ, and each list    *)
(* has grown from the one before.                                           *)
AreAsked(T, N, lists) ==
    /\ N \in Nat \ {0} /\ lists \in [1..N -> Seq(T)] /\ Len(lists) = N
    /\ \A p \in 1..N : Differ(lists[p])
    /\ \A p \in 1..N - 1 : Grown(lists[p], lists[p + 1])

LEMMA ListsAreMoved ==
    ASSUME NEW T, NEW N, NEW lists, AreAsked(T, N, lists)
    PROVE  \A p \in 1..N : Moved(lists[1], lists[p]) /\ Moved(lists[p], lists[N])
<1>1. N \in Nat \ {0} /\ \A p \in 1..N : lists[p] \in Seq(T)
  BY DEF AreAsked
<1>2. \A p \in 1..N - 1 : Moved(lists[p], lists[p + 1])
  <2>1. TAKE p \in 1..N - 1
  <2>2. p \in 1..N /\ p + 1 \in 1..N /\ Grown(lists[p], lists[p + 1])
    BY <1>1 DEF AreAsked
  <2>3. QED
    BY <1>1, <2>2, GrownIsMoved
<1>3. \A p \in 1..N : Moved(lists[p], lists[p])
  <2>1. ASSUME NEW a \in Seq(T) PROVE Moved(a, a)
    BY DEF Moved
  <2>2. QED
    BY <1>1, <2>1
<1>4. \A j \in 0..N - 1 : Moved(lists[1], lists[1 + j])
  <2> DEFINE A == {j \in 0..N - 1 : Moved(lists[1], lists[1 + j])}
  <2>1. 0 \in A
    <3>1. 1 \in 1..N /\ 0 \in 0..N - 1 /\ 1 + 0 = 1
      BY <1>1
    <3>2. QED
      BY <1>3, <3>1
  <2>2. ASSUME NEW j \in 1..N - 1, j - 1 \in A PROVE j \in A
    <3>1. /\ 1 + (j - 1) = j /\ 1 + j = j + 1 /\ j \in 1..N /\ j + 1 \in 1..N /\ 1 \in 1..N
          /\ j \in 0..N - 1
      BY <1>1
    <3>2. Moved(lists[1], lists[j]) /\ Moved(lists[j], lists[j + 1])
      BY <1>2, <2>2, <3>1
    <3>3. Moved(lists[1], lists[1 + j])
      BY <1>1, <3>1, <3>2, MovedTwice
    <3>4. QED
      BY <3>1, <3>3
  <2> HIDE DEF A
  <2>3. N - 1 \in Nat
    BY <1>1
  <2>4. \A j \in 0..N - 1 : j \in A
    BY <2>1, <2>2, <2>3, UpTo
  <2>5. QED
    BY <2>4 DEF A
<1>5. \A j \in 0..N - 1 : Moved(lists[N - j], lists[N])
  <2> DEFINE A == {j \in 0..N - 1 : Moved(lists[N - j], lists[N])}
  <2>1. 0 \in A
    <3>1. N \in 1..N /\ 0 \in 0..N - 1 /\ N - 0 = N
      BY <1>1
    <3>2. QED
      BY <1>3, <3>1
  <2>2. ASSUME NEW j \in 1..N - 1, j - 1 \in A PROVE j \in A
    <3>1. /\ N - j \in 1..N - 1 /\ N - (j - 1) = (N - j) + 1 /\ N - (j - 1) \in 1..N /\ N - j \in 1..N
          /\ N \in 1..N /\ j \in 0..N - 1
      BY <1>1
    <3>2. Moved(lists[N - (j - 1)], lists[N]) /\ Moved(lists[N - j], lists[N - (j - 1)])
      BY <1>2, <2>2, <3>1
    <3>3. Moved(lists[N - j], lists[N])
      BY <1>1, <3>1, <3>2, MovedTwice
    <3>4. QED
      BY <3>1, <3>3
  <2> HIDE DEF A
  <2>3. N - 1 \in Nat
    BY <1>1
  <2>4. \A j \in 0..N - 1 : j \in A
    BY <2>1, <2>2, <2>3, UpTo
  <2>5. QED
    BY <2>4 DEF A
<1>6. QED
  <2>1. TAKE p \in 1..N
  <2>2. p - 1 \in 0..N - 1 /\ 1 + (p - 1) = p /\ N - p \in 0..N - 1 /\ N - (N - p) = p
    BY <1>1
  <2>3. QED
    BY <1>4, <1>5, <2>2

Added(lists) == Cardinality(UNION {Sc!Range(lists[i]) : i \in DOMAIN lists}) - Len(lists[1])

LEMMA DifferentAreCounted ==
    ASSUME NEW n \in Nat, NEW f, DOMAIN f = 1..n, \A i, j \in 1..n : f[i] = f[j] => i = j
    PROVE  Cardinality(Sc!Range(f)) = n
<1> DEFINE g == [i \in 1..n |-> f[i]]
           V == Sc!Range(f)
<1>1. V = {f[i] : i \in 1..n}
  BY DEF Sc!Range
<1> HIDE DEF V
<1>2. g \in Bijection(1..n, V)
  BY <1>1 DEF Bijection, Injection, IsInjective, Surjection
<1>3. ExistsBijection(1..n, V)
  BY <1>2 DEF ExistsBijection
<1>4. IsFiniteSet(1..n) /\ Cardinality(1..n) = n
  BY FS_Interval
<1>5. QED
  BY <1>3, <1>4, FS_Bijection DEF V

(* All the scores there are, are in the last list.                          *)
LEMMA AddedAre ==
    ASSUME NEW T, NEW N, NEW lists, AreAsked(T, N, lists)
    PROVE  Added(lists) = Len(lists[N]) - Len(lists[1])
<1> DEFINE final == lists[N]
<1>1. /\ N \in 1..N /\ DOMAIN lists = 1..N /\ final \in Seq(T) /\ Differ(final)
      /\ \A p \in 1..N : lists[p] \in Seq(T)
  BY DEF AreAsked
<1>2. UNION {Sc!Range(lists[i]) : i \in DOMAIN lists} = Sc!Range(final)
  <2>1. ASSUME NEW p \in 1..N, NEW x \in Sc!Range(lists[p]) PROVE x \in Sc!Range(final)
    <3>1. Moved(lists[p], final)
      BY ListsAreMoved
    <3>2. PICK i \in 1..Len(lists[p]) : x = lists[p][i]
      BY <1>1, <2>1 DEF Sc!Range
    <3>3. PICK k \in 1..Len(final) : final[k] = lists[p][i]
      BY <3>1 DEF Moved
    <3>4. QED
      BY <1>1, <3>2, <3>3 DEF Sc!Range
  <2> HIDE DEF final
  <2>2. QED
    BY <1>1, <2>1 DEF final
<1> HIDE DEF final
<1>3. Cardinality(Sc!Range(final)) = Len(final)
  <2>1. Len(final) \in Nat /\ DOMAIN final = 1..Len(final)
    BY <1>1
  <2>2. QED
    BY <1>1, <2>1, DifferentAreCounted, Zenon DEF Differ
<1>4. QED
  BY <1>2, <1>3, Zenon DEF Added, final
(* What is so after p pages: got are the scores so far.                     *)
Pages(T) == [scores : Seq(T), more : BOOLEAN]
Seen(lists, p, got) ==
    /\ Len(got) <= Len(lists[p])
    /\ \A i \in 1..Len(lists[1]), k \in 1..Len(got) :
          lists[p][k] = lists[1][i] => lists[1][i] \in Sc!Range(got)
Unmoved(start, limit, s) ==
    /\ Len(s.scores) <= Len(start) /\ \A k \in 1..Len(s.scores) : s.scores[k] = start[k]
    /\ s.more \/ Len(s.scores) \in {limit, Len(start)}
PagesInv(T, N, lists, limit, p, s) ==
    /\ s \in Pages(T) /\ Len(s.scores) <= limit
    /\ s.more => /\ Len(s.scores) < limit /\ Len(s.scores) = 3 * p
                 /\ p # 0 => Seen(lists, p, s.scores)
    /\ ~s.more => \A i \in 1..Len(lists[1]) :
                     i <= limit - (Len(lists[N]) - Len(lists[1])) => lists[1][i] \in Sc!Range(s.scores)
    /\ Len(lists[N]) = Len(lists[1]) => Unmoved(lists[1], limit, s)

LEMMA PartOfSeq ==
    ASSUME NEW T, NEW s \in Seq(T), NEW l \in Nat, Len(s) = l, NEW h \in Nat, NEW end \in Nat, h <= end, end <= l
    PROVE  LET piece == SubSeq(s, h + 1, end)
           IN  piece \in Seq(T) /\ Len(piece) = end - h /\ \A k \in 1..end - h : piece[k] = s[h + k]
<1> DEFINE new == [k \in 1..end - h |-> s[h + k]]
<1>1. \A k \in 1..end - h : h + k \in 1..l
  OBVIOUS
<1>2. end - h \in Nat /\ \A k \in 1..end - h : s[h + k] \in T
  BY <1>1
<1>3. new \in Seq(T) /\ Len(new) = end - h /\ \A k \in 1..end - h : new[k] = s[h + k]
  BY <1>2
<1>4. SubSeq(s, h + 1, end) = new
  OBVIOUS
<1>5. QED
  BY <1>3, <1>4, Zenon

(* A page puts what is next in its list behind what there was.              *)
LEMMA PageIsNext ==
    ASSUME NEW T, NEW list \in Seq(T), NEW limit \in Nat, NEW s \in Pages(T),
           s.more, Len(s.scores) < limit, Len(s.scores) <= Len(list)
    PROVE  LET h == Len(s.scores)
               t == Sc!NextPage(s, list, limit)
           IN  /\ t \in Pages(T) /\ Len(t.scores) >= h /\ Len(t.scores) <= Len(list) /\ Len(t.scores) <= limit
               /\ \A k \in 1..h : t.scores[k] = s.scores[k]
               /\ \A k \in 1..Len(t.scores) : k > h => t.scores[k] = list[k]
               /\ t.more => Len(t.scores) = h + 3 /\ Len(t.scores) < limit
               /\ ~t.more => Len(t.scores) \in {limit, Len(list)}
<1> DEFINE h == Len(s.scores)
           l == Len(list)
           have == s.scores
           fetch == Sc!Least(limit - h, Sc!PageSize)
           end == Sc!Least(h + fetch, l)
           page == SubSeq(list, h + 1, end)
           t == Sc!NextPage(s, list, limit)
<1>1. h \in Nat /\ l \in Nat /\ h < limit /\ h <= l /\ have \in Seq(T) /\ Len(have) = h /\ Len(list) = l
  BY DEF Pages
<1>2. t = [scores |-> have \o page, more |-> Len(page) = fetch /\ h + Len(page) < limit]
  BY DEF Sc!NextPage, Sc!Page
<1> DEFINE new == have \o page
           more == Len(page) = fetch /\ h + Len(page) < limit
<1>20. t.scores = new /\ t.more = more /\ (new \in Seq(T) => t \in Pages(T))
  <2>1. t = [scores |-> new, more |-> more] /\ more \in BOOLEAN
    BY <1>2
  <2> HIDE DEF t, new, more
  <2>2. QED
    BY <2>1 DEF Pages
<1> HIDE DEF t, h, l, have
<1>3. fetch \in 1..3 /\ h + fetch <= limit /\ (fetch = 3 \/ h + fetch = limit)
  BY <1>1 DEF Sc!Least, Sc!PageSize
<1> HIDE DEF fetch
<1>4. /\ end \in Nat /\ h <= end /\ end <= l /\ end <= h + fetch /\ (end = h + fetch \/ end = l)
  BY <1>1, <1>3 DEF Sc!Least
<1> HIDE DEF end
<1> DEFINE d == end - h
<1>40. d \in Nat /\ h + d = end
  BY <1>1, <1>4
<1>5. page \in Seq(T) /\ Len(page) = d /\ \A k \in 1..d : page[k] = list[h + k]
  BY <1>1, <1>4, PartOfSeq DEF page
<1> HIDE DEF page, d
<1>6. /\ new \in Seq(T) /\ Len(new) = end
      /\ \A k \in 1..h : new[k] = have[k]
      /\ \A k \in 1..end : k > h => new[k] = list[k]
  <2>1. /\ new \in Seq(T) /\ Len(new) = h + d
        /\ \A k \in 1..h : new[k] = have[k]
        /\ \A k \in 1..d : new[h + k] = page[k]
    <3>1. have \in Seq(T) /\ h \in Nat /\ Len(have) = h /\ page \in Seq(T) /\ d \in Nat /\ Len(page) = d
      BY <1>1, <1>40, <1>5
    <3>2. new \in Seq(T) /\ Len(new) = h + d
      BY <3>1
    <3>3. \A k \in 1..h : new[k] = have[k]
      BY <3>1
    <3>4. \A k \in 1..d : new[h + k] = page[k]
      BY <3>1
    <3>5. QED
      BY <3>2, <3>3, <3>4
  <2> HIDE DEF new
  <2>3. ASSUME NEW k \in 1..end, k > h PROVE new[k] = list[k]
    <3>1. k - h \in 1..d /\ h + (k - h) = k
      BY <1>1, <1>4, <1>40, <2>3
    <3> DEFINE e == k - h
    <3>2. e \in 1..d /\ h + e = k
      BY <3>1
    <3> HIDE DEF e
    <3>3. new[h + e] = list[h + e]
      BY <1>5, <2>1, <3>2
    <3>4. QED
      BY <3>2, <3>3
  <2>4. QED
    BY <1>40, <2>1, <2>3
<1> HIDE DEF new
<1>8. t.more <=> d = fetch /\ end < limit
  BY <1>40, <1>5, <1>20
<1>9. (t.more => end = h + 3 /\ end < limit) /\ (~t.more => end = limit \/ end = l)
  BY <1>1, <1>3, <1>4, <1>40, <1>8
<1>10. end >= h /\ end <= l /\ end <= limit
  BY <1>1, <1>3, <1>4
<1>11. Len(t.scores) = end /\ t \in Pages(T)
  BY <1>6, <1>20, Zenon
<1>12. /\ \A k \in 1..h : t.scores[k] = have[k]
       /\ \A k \in 1..end : k > h => t.scores[k] = list[k]
  BY <1>6, <1>20, Zenon
<1>13. QED
  BY <1>9, <1>10, <1>11, <1>12 DEF t, h, l, have
LEMMA RangeOfSeq ==
    ASSUME NEW T, NEW s \in Seq(T), NEW n \in Nat, Len(s) = n
    PROVE  \A x : x \in Sc!Range(s) <=> \E k \in 1..n : s[k] = x
<1>1. DOMAIN s = 1..n
  OBVIOUS
<1>2. QED
  BY <1>1 DEF Sc!Range

(* Each page keeps to what is so of the pages.                              *)
LEMMA PagesGoOn ==
    ASSUME NEW T, NEW N, NEW lists, AreAsked(T, N, lists), NEW limit \in Nat, NEW p \in 1..N, NEW s,
           PagesInv(T, N, lists, limit, p - 1, s)
    PROVE  PagesInv(T, N, lists, limit, p, Sc!NextPage(s, lists[p], limit))
<1> DEFINE start == lists[1]
           l == lists[p]
           t == Sc!NextPage(s, l, limit)
           n == Len(start)
           h == Len(s.scores)
           g == Len(t.scores)
           m == Len(l)
           all == Len(lists[N])
<1>1. CASE ~s.more
  <2>1. t = s
    BY <1>1 DEF Sc!NextPage
  <2>2. QED
    BY <1>1, <2>1 DEF PagesInv
<1>2. CASE s.more
  <2>1. /\ N \in Nat \ {0} /\ 1 \in 1..N /\ N \in 1..N /\ start \in Seq(T) /\ l \in Seq(T) /\ lists[N] \in Seq(T)
        /\ Differ(l)
    BY DEF AreAsked
  <2>2. n \in Nat /\ m \in Nat /\ all \in Nat
    BY <2>1
  <2>3. s \in Pages(T) /\ s.scores \in Seq(T) /\ h \in Nat /\ h < limit /\ h = 3 * (p - 1)
    BY <1>2 DEF PagesInv, Pages
  <2>4. Moved(start, l) /\ Moved(l, lists[N])
    BY ListsAreMoved
  <2>5. n <= m /\ m <= all
    BY <2>4 DEF Moved
  <2>6. p # 1 => /\ p - 1 \in 1..N /\ lists[p - 1] \in Seq(T) /\ Len(lists[p - 1]) \in Nat
                 /\ Moved(start, lists[p - 1]) /\ Moved(lists[p - 1], l)
                 /\ Seen(lists, p - 1, s.scores)
    <3>1. SUFFICES ASSUME p # 1
                   PROVE  /\ p - 1 \in 1..N /\ lists[p - 1] \in Seq(T) /\ Len(lists[p - 1]) \in Nat
                          /\ Moved(start, lists[p - 1]) /\ Moved(lists[p - 1], l)
                          /\ Seen(lists, p - 1, s.scores)
      OBVIOUS
    <3>2. p - 1 \in 1..N /\ p - 1 \in 1..N - 1 /\ p - 1 # 0 /\ (p - 1) + 1 = p
      BY <2>1, <3>1
    <3>3. lists[p - 1] \in Seq(T) /\ Grown(lists[p - 1], l)
      BY <3>2 DEF AreAsked
    <3>4. Moved(start, lists[p - 1]) /\ Moved(lists[p - 1], l)
      BY <2>1, <3>2, <3>3, ListsAreMoved, GrownIsMoved
    <3>5. Seen(lists, p - 1, s.scores)
      BY <1>2, <3>2 DEF PagesInv
    <3>6. Len(lists[p - 1]) \in Nat
      BY <3>3
    <3>7. QED
      BY <3>2, <3>3, <3>4, <3>5, <3>6
  <2>7. h <= m
    <3>1. CASE p = 1
      BY <2>2, <2>3, <3>1
    <3>2. CASE p # 1
      <4>1. h <= Len(lists[p - 1]) /\ Len(lists[p - 1]) <= m
        BY <2>6, <3>2 DEF Seen, Moved
      <4>2. QED
        BY <2>2, <2>3, <2>6, <3>2, <4>1
    <3>3. QED
      BY <3>1, <3>2
  <2>8. /\ t \in Pages(T) /\ g >= h /\ g <= m /\ g <= limit
        /\ \A k \in 1..h : t.scores[k] = s.scores[k]
        /\ \A k \in 1..g : k > h => t.scores[k] = l[k]
        /\ t.more => g = h + 3 /\ g < limit
        /\ ~t.more => g \in {limit, m}
    BY <1>2, <2>1, <2>3, <2>7, PageIsNext
  <2> HIDE DEF t
  <2>9. t.scores \in Seq(T) /\ g \in Nat
    BY <2>8 DEF Pages
  <2> HIDE DEF h, g, m, n, all, start, l
  <2>10. /\ \A x : x \in Sc!Range(s.scores) <=> \E k \in 1..h : s.scores[k] = x
         /\ \A x : x \in Sc!Range(t.scores) <=> \E k \in 1..g : t.scores[k] = x
    BY <2>3, <2>9, RangeOfSeq DEF h, g
  <2>11. ASSUME NEW i \in 1..n, NEW k \in 1..g, l[k] = start[i] PROVE start[i] \in Sc!Range(t.scores)
    <3>1. CASE k > h
      BY <2>8, <2>10, <2>11, <3>1
    <3>2. CASE ~(k > h)
      <4> DEFINE before == lists[p - 1]
      <4>1. p # 1 /\ k \in 1..h
        BY <2>3, <2>9, <2>11, <3>2
      <4>2. PICK a : a \in 1..Len(before) /\ before[a] = start[i]
        BY <2>6, <2>11, <4>1 DEF Moved, n
      <4>3. PICK b : b \in 1..m /\ l[b] = before[a] /\ a <= b
        BY <2>6, <4>1, <4>2 DEF Moved, m
      <4>4. b = k
        <5>1. k \in 1..m
          BY <2>2, <2>8, <2>9, <2>11
        <5>2. QED
          BY <2>1, <2>11, <4>2, <4>3, <5>1 DEF Differ, m
      <4>5. a \in 1..h
        BY <2>3, <2>6, <4>1, <4>2, <4>3, <4>4
      <4>6. start[i] \in Sc!Range(s.scores)
        BY <2>6, <2>11, <4>1, <4>2, <4>5 DEF Seen, start, h, n
      <4>7. PICK c \in 1..h : s.scores[c] = start[i]
        BY <2>10, <4>6
      <4>8. c \in 1..g /\ t.scores[c] = start[i]
        BY <2>3, <2>8, <2>9, <4>7
      <4>9. QED
        BY <2>10, <4>8
    <3>3. QED
      BY <3>1, <3>2
  <2>12. Seen(lists, p, t.scores)
    BY <2>8, <2>11 DEF Seen, start, l, g, m, n
  <2>13. ASSUME ~t.more, NEW i \in 1..n, i <= limit - (all - n) PROVE start[i] \in Sc!Range(t.scores)
    <3>1. PICK k : k \in 1..m /\ l[k] = start[i] /\ n - i <= m - k
      BY <2>4, <2>13 DEF Moved, n, m
    <3>2. k \in 1..g
      BY <2>2, <2>5, <2>8, <2>9, <2>13, <3>1
    <3>3. QED
      BY <2>11, <2>13, <3>1, <3>2
  <2>14. ASSUME all = n PROVE Unmoved(start, limit, t)
    <3>1. m = n
      BY <2>2, <2>5, <2>14
    <3>2. ASSUME NEW i \in 1..n PROVE l[i] = start[i]
      <4>1. PICK k : k \in 1..m /\ l[k] = start[i] /\ i <= k /\ n - i <= m - k
        BY <2>4, <3>2 DEF Moved, n, m
      <4>2. k = i
        BY <2>2, <3>1, <3>2, <4>1
      <4>3. QED
        BY <4>1, <4>2
    <3>3. \A k \in 1..h : s.scores[k] = start[k]
      BY <2>14 DEF PagesInv, Unmoved, all, n, start, h
    <3>4. ASSUME NEW k \in 1..g PROVE t.scores[k] = start[k]
      <4>1. CASE k > h
        <5>1. k \in 1..n
          BY <2>2, <2>8, <2>9, <3>1, <3>4
        <5>2. QED
          BY <2>8, <3>2, <3>4, <4>1, <5>1
      <4>2. CASE ~(k > h)
        <5>1. k \in 1..h
          BY <2>3, <2>9, <3>4, <4>2
        <5>2. QED
          BY <2>8, <3>3, <5>1
      <4>3. QED
        BY <4>1, <4>2
    <3>5. g <= n /\ (t.more \/ g \in {limit, n})
      BY <2>8, <3>1
    <3>6. QED
      BY <3>4, <3>5 DEF Unmoved, g, n
  <2>15. t.more => g < limit /\ g = 3 * p
    <3>1. p \in Int
      OBVIOUS
    <3>2. QED
      BY <2>3, <2>8, <3>1
  <2>16. t \in Pages(T) /\ g <= limit
    BY <2>8
  <2>17. PagesInv(T, N, lists, limit, p, t)
    BY <2>12, <2>13, <2>14, <2>15, <2>16 DEF PagesInv, g, n, all, start
  <2>18. QED
    BY <2>17 DEF t, l
<1>3. QED
  BY <1>1, <1>2
NoPage(limit) == [scores |-> <<>>, more |-> limit > 0]

(* The pages are asked for one after the other.                             *)
LEMMA PagesAreAsked ==
    ASSUME NEW T, NEW N, NEW lists, AreAsked(T, N, lists), NEW limit \in Nat
    PROVE  \E s : PagesInv(T, N, lists, limit, N, s) /\ Sc!BestScores(lists, limit) = s.scores
<1> DEFINE x == NoPage(limit)
           D == {s \in Pages(T) : \E p \in 0..N : PagesInv(T, N, lists, limit, p, s)}
           Follows(g) == g = [p \in 0..N |-> IF p = 0 THEN x ELSE Sc!NextPage(g[p - 1], lists[p], limit)]
           F == [p \in 1..N |-> [s \in Pages(T) |-> IF Sc!NextPage(s, lists[p], limit) \in Pages(T)
                                                   THEN Sc!NextPage(s, lists[p], limit) ELSE s]]
<1>1. N \in Nat \ {0} /\ 1 \in 1..N /\ N \in 1..N /\ Len(lists) = N /\ \A p \in 1..N : lists[p] \in Seq(T)
  BY DEF AreAsked
<1>2. x \in Pages(T) /\ PagesInv(T, N, lists, limit, 0, x)
  <2>1. x.scores = <<>> /\ x.more = (limit > 0) /\ x \in Pages(T)
    BY DEF NoPage, Pages
  <2>2. Len(lists[1]) \in Nat /\ Len(lists[N]) \in Nat /\ Len(lists[1]) <= Len(lists[N])
    <3>1. Moved(lists[1], lists[N])
      BY <1>1, ListsAreMoved
    <3>2. QED
      BY <1>1, <3>1 DEF Moved
  <2>3. Len(x.scores) = 0 /\ (x.more <=> limit # 0)
    <3>1. (limit > 0) <=> limit # 0
      OBVIOUS
    <3>2. Len(x.scores) = 0
      BY <2>1
    <3>3. x.more <=> limit # 0
      BY <2>1, <3>1, Zenon
    <3>4. QED
      BY <3>2, <3>3
  <2> DEFINE n == Len(lists[1])
             all == Len(lists[N])
  <2> HIDE DEF x, n, all
  <2>4. ~x.more => \A i \in 1..n : ~(i <= limit - (all - n))
    BY <2>2, <2>3 DEF n, all
  <2>5. Unmoved(lists[1], limit, x)
    BY <2>2, <2>3 DEF Unmoved
  <2>6. x.more => Len(x.scores) < limit /\ Len(x.scores) = 3 * 0
    BY <2>3
  <2>7. Len(x.scores) <= limit
    BY <2>3
  <2>8. QED
    BY <2>1, <2>4, <2>5, <2>6, <2>7 DEF PagesInv, n, all
<1> HIDE DEF x
<1>3. PICK g \in [0..N -> Pages(T)] : g[0] = x /\ \A p \in 1..N : g[p] = F[p][g[p - 1]]
  <2>1. F \in [1..N -> [Pages(T) -> Pages(T)]]
    OBVIOUS
  <2> HIDE DEF F
  <2>2. Iterations(Pages(T), x, N, F) # {}
    BY <1>1, <1>2, <2>1, Recursion
  <2>3. QED
    BY <2>2 DEF Iterations
<1>4. ASSUME NEW p \in 1..N, PagesInv(T, N, lists, limit, p - 1, g[p - 1])
      PROVE  /\ PagesInv(T, N, lists, limit, p, g[p])
             /\ g[p] = Sc!NextPage(g[p - 1], lists[p], limit)
  <2> DEFINE t == Sc!NextPage(g[p - 1], lists[p], limit)
  <2>1. PagesInv(T, N, lists, limit, p, t)
    BY <1>4, PagesGoOn
  <2>2. t \in Pages(T)
    BY <2>1 DEF PagesInv
  <2>3. p - 1 \in 0..N
    BY <1>1
  <2>4. g[p - 1] \in Pages(T)
    BY <2>3
  <2>5. F[p][g[p - 1]] = t
    BY <2>2, <2>4
  <2>6. g[p] = t
    BY <1>3, <2>5
  <2>7. QED
    BY <2>1, <2>6
<1> HIDE DEF F
<1>5. \A p \in 0..N : PagesInv(T, N, lists, limit, p, g[p])
  <2> DEFINE A == {p \in 0..N : PagesInv(T, N, lists, limit, p, g[p])}
  <2>1. 0 \in A
    BY <1>1, <1>2, <1>3
  <2>2. ASSUME NEW p \in 1..N, p - 1 \in A PROVE p \in A
    BY <1>4, <2>2
  <2> HIDE DEF A
  <2>3. \A p \in 0..N : p \in A
    BY <1>1, <2>1, <2>2, UpTo
  <2>4. QED
    BY <2>3 DEF A
<1>6. Follows(g)
  <2>1. \A p \in 0..N : p = 0 \/ (p \in 1..N /\ p - 1 \in 0..N)
    BY <1>1
  <2>2. \A p \in 0..N : g[p] = IF p = 0 THEN x ELSE Sc!NextPage(g[p - 1], lists[p], limit)
    BY <1>3, <1>4, <1>5, <2>1
  <2>3. QED
    BY <2>2
<1> DEFINE got == CHOOSE got : Follows(got)
<1>7. Follows(got)
  BY <1>6
<1>8. Sc!BestScores(lists, limit) = got[N].scores
  BY <1>1 DEF Sc!BestScores, x, NoPage
<1> HIDE DEF got
<1>9. \A p \in 0..N : PagesInv(T, N, lists, limit, p, got[p])
  <2> DEFINE A == {p \in 0..N : PagesInv(T, N, lists, limit, p, got[p])}
  <2>1. 0 \in A
    BY <1>1, <1>2, <1>7
  <2>2. ASSUME NEW p \in 1..N, p - 1 \in A PROVE p \in A
    <3>1. p \in 0..N /\ p # 0
      OBVIOUS
    <3>2. got[p] = Sc!NextPage(got[p - 1], lists[p], limit)
      BY <1>7, <3>1
    <3>3. PagesInv(T, N, lists, limit, p, Sc!NextPage(got[p - 1], lists[p], limit))
      BY <2>2, PagesGoOn
    <3>4. QED
      BY <3>1, <3>2, <3>3
  <2> HIDE DEF A
  <2>3. \A p \in 0..N : p \in A
    BY <1>1, <2>1, <2>2, UpTo
  <2>4. QED
    BY <2>3 DEF A
<1>10. PagesInv(T, N, lists, limit, N, got[N])
  BY <1>1, <1>9
<1>11. QED
  BY <1>8, <1>10

(* However many scores a player sets while the pages of a best list are     *)
(* asked for, and wherever they come to stand (get_user_best): no score of  *)
(* the list as it was is missed but those the new ones can push out, and a  *)
(* list that stays as it is is given in its order, each score once.  Asked  *)
(* of the lists: no score is in one twice, old scores keep their order, and *)
(* there are lists enough for the pages of the limit.                       *)
THEOREM NothingIsMissedBetweenPages ==
    ASSUME NEW T, NEW N, NEW lists, AreAsked(T, N, lists), NEW limit \in Nat, limit <= N * Sc!PageSize
    PROVE  Sc!PagesMissNothing(lists, limit)
<1> DEFINE start == lists[1]
           n == Len(start)
           got == Sc!BestScores(lists, limit)
           h == Len(got)
           first == SubSeq(start, 1, Sc!Least(limit, n))
<1>1. PICK s : PagesInv(T, N, lists, limit, N, s) /\ got = s.scores
  BY PagesAreAsked
<1>2. N \in Nat \ {0} /\ 1 \in 1..N /\ N \in 1..N /\ start \in Seq(T) /\ lists[N] \in Seq(T)
  BY DEF AreAsked
<1>20. n \in Nat /\ Len(lists[N]) \in Nat /\ n <= Len(lists[N])
  <2>1. Moved(start, lists[N])
    BY <1>2, ListsAreMoved
  <2>2. QED
    BY <1>2, <2>1 DEF Moved
<1>3. s \in Pages(T) /\ h \in Nat /\ h <= limit /\ got \in Seq(T)
  BY <1>1 DEF PagesInv, Pages
<1>4. ~s.more
  <2>1. s.more => h < limit /\ h = 3 * N
    BY <1>1 DEF PagesInv
  <2>2. N * Sc!PageSize = 3 * N
    BY <1>2 DEF Sc!PageSize
  <2>3. QED
    BY <1>2, <1>3, <2>1, <2>2
<1> DEFINE all == Len(lists[N])
<1>5. Added(lists) = all - n
  BY AddedAre
<1>6. /\ \A i \in 1..n : i <= limit - (all - n) => start[i] \in Sc!Range(got)
      /\ all = n => /\ h <= n /\ (h = limit \/ h = n)
                    /\ \A k \in 1..h : got[k] = start[k]
  BY <1>1, <1>4 DEF PagesInv, Unmoved
<1>7. Sc!PagesMissNothing(lists, limit) =
        (/\ \A i \in 1..Sc!Least(limit - Added(lists), n) : start[i] \in Sc!Range(got)
         /\ Added(lists) = 0 => got = first)
  BY DEF Sc!PagesMissNothing, Added, Sc!Cardinality, Cardinality
<1> HIDE DEF got, start, n, h, all, first
<1>8. ASSUME NEW i \in 1..Sc!Least(limit - Added(lists), n) PROVE start[i] \in Sc!Range(got)
  <2> DEFINE a == limit - Added(lists)
  <2>1. a \in Int /\ a = limit - (all - n)
    BY <1>5, <1>20 DEF all
  <2>2. i \in 1..Sc!Least(a, n)
    OBVIOUS
  <2> HIDE DEF a
  <2>3. i \in 1..n /\ i <= a
    BY <1>20, <2>1, <2>2 DEF Sc!Least
  <2>4. QED
    BY <1>6, <2>1, <2>3
<1>9. ASSUME Added(lists) = 0 PROVE got = first
  <2>1. all = n
    BY <1>5, <1>9, <1>20 DEF all
  <2>2. h = Sc!Least(limit, n) /\ h <= n
    BY <1>3, <1>6, <1>20, <2>1 DEF Sc!Least
  <2>3. first \in Seq(T) /\ Len(first) = h /\ \A k \in 1..h : first[k] = start[k]
    <3> DEFINE end == Sc!Least(limit, n)
    <3>0. end \in Nat /\ end = h /\ end <= n /\ Len(start) = n
      BY <1>3, <2>2 DEF n
    <3>1. first = SubSeq(start, 1, end)
      BY DEF first
    <3> HIDE DEF end
    <3>2. \A k \in 1..end : k \in 1..n
      BY <1>20, <3>0
    <3>3. first \in Seq(T) /\ Len(first) = end /\ \A k \in 1..end : first[k] = start[k]
      BY <1>2, <1>20, <3>0, <3>1, <3>2
    <3>4. QED
      BY <3>0, <3>3
  <2>4. Len(got) = h /\ \A k \in 1..h : got[k] = first[k]
    BY <1>6, <2>1, <2>3 DEF h
  <2>5. DOMAIN got = 1..h /\ DOMAIN first = 1..h /\ got = [k \in 1..h |-> got[k]] /\ first = [k \in 1..h |-> first[k]]
    BY <1>3, <2>3, <2>4
  <2>6. QED
    BY <2>4, <2>5
<1>10. QED
  BY <1>7, <1>8, <1>9

------------------------------------------------------------------------------
(* What becomes of one object of a converted map.                           *)
ANote == [lane : Int, at : Int, until : Int, second : BOOLEAN]
ARun  == [notes : SUBSET ANote, col : Int, ok : BOOLEAN]

(* The lanes of the map; not all of those that draws use are taken, when    *)
(* there are eight.                                                         *)
LanesInv ==
    /\ columns \in Nat \ {0, 1} /\ difficulty \in Int
    /\ prev \in SUBSET (0..columns - 1)
    /\ columns = 8 => ~(M!Usable \subseteq prev)

LEMMA CountsOfSets == \A set : M!Cardinality(set) = Cardinality(set)
BY DEF M!Cardinality, Cardinality

LEMMA OfTwo ==
    ASSUME NEW i \in Int, NEW j \in Int
    PROVE  /\ M!Min({i, j}) = IF i <= j THEN i ELSE j
           /\ M!Max({i, j}) = IF i >= j THEN i ELSE j
           /\ M!Least(i, j) = IF i <= j THEN i ELSE j
<1>1. \E x \in {i, j} : \A y \in {i, j} : x <= y
  OBVIOUS
<1>2. \E x \in {i, j} : \A y \in {i, j} : x >= y
  OBVIOUS
<1>3. QED
  BY <1>1, <1>2 DEF M!Min, M!Max, M!Least

LEMMA OfThree ==
    ASSUME NEW i \in Int, NEW j \in Int, NEW k \in Int
    PROVE  M!Max({i, j, k}) \in {i, j, k} /\ \A x \in {i, j, k} : M!Max({i, j, k}) >= x
<1>1. \E x \in {i, j, k} : \A y \in {i, j, k} : x >= y
  OBVIOUS
<1>2. QED
  BY <1>1 DEF M!Max

LEMMA OfFour ==
    ASSUME NEW i \in Int, NEW j \in Int, NEW k \in Int, NEW l \in Int
    PROVE  M!Max({i, j, k, l}) \in {i, j, k, l}
<1>1. \E x \in {i, j, k, l} : \A y \in {i, j, k, l} : x >= y
  OBVIOUS
<1>2. QED
  BY <1>1 DEF M!Max

LEMMA UsableIs ==
    ASSUME columns \in Nat \ {0, 1}
    PROVE  /\ M!FirstColumn \in 0..1 /\ (M!FirstColumn = 1 <=> columns = 8)
           /\ M!Usable = M!FirstColumn .. columns - 1 /\ M!Usable \subseteq 0 .. columns - 1
           /\ columns - M!FirstColumn >= 2
           /\ \A c \in M!Usable : M!Mirrored(c) \in M!Usable
           /\ \A c, d \in M!Usable : M!Mirrored(c) = M!Mirrored(d) => c = d
BY DEF M!FirstColumn, M!Usable, M!Mirrored

(* get_column finds a usable column.                                        *)
LEMMA ColumnIsUsable ==
    ASSUME columns \in Nat \ {0, 1}, NEW x \in Nat
    PROVE  M!Column(x) \in M!Usable
<1>1. (x * 7) \div 512 \in Nat /\ (x * columns) \div 512 \in Nat
  <2>1. x * columns \in Nat
    OBVIOUS
  <2>2. \A y \in Nat : y \div 512 \in Nat
    OBVIOUS
  <2>3. QED
    BY <2>1, <2>2
<1>2. CASE columns = 8
  <2>1. ASSUME NEW y \in Nat PROVE M!Min({6, y}) \in 0..6
    <3>1. \E z \in {6, y} : \A v \in {6, y} : z <= v
      OBVIOUS
    <3>2. QED
      BY <3>1 DEF M!Min
  <2>2. M!Column(x) = M!Min({6, (x * 7) \div 512}) + 1 /\ M!Usable = 1..7
    BY <1>2 DEF M!Column, M!Usable, M!FirstColumn
  <2>3. QED
    BY <1>1, <2>1, <2>2
<1>3. CASE columns # 8
  BY <1>1, <1>3, OfTwo DEF M!Column, M!Usable, M!FirstColumn
<1>4. QED
  BY <1>2, <1>3

LEMMA Wraps ==
    ASSUME NEW w \in Nat \ {0}, NEW i \in 0 .. w - 1
    PROVE  i % w = i /\ (i + w) % w = i
OBVIOUS

(* Among some columns, fewer of which are taken than there are, one is free. *)
LEMMA OneIsFree ==
    ASSUME NEW a \in Int, NEW b \in Int, a <= b, NEW S, IsFiniteSet(S), Cardinality(S) < b - a + 1
    PROVE  (a .. b) \ S # {}
<1>1. SUFFICES ASSUME a .. b \subseteq S PROVE FALSE
  OBVIOUS
<1>2. Cardinality(a .. b) = b - a + 1
  BY FS_Interval
<1>3. Cardinality(a .. b) <= Cardinality(S)
  BY <1>1, FS_Subset
<1>4. Cardinality(S) \in Nat
  BY FS_CardinalityType
<1>5. QED
  BY <1>2, <1>3, <1>4

LEMMA AvailableIsOpen ==
    ASSUME columns \in Nat \ {0, 1}, NEW start, NEW among, NEW taken, NEW except, NEW gathered \in BOOLEAN,
           gathered => start \in M!Usable /\ among = M!Usable
    PROVE  LET open == (among \ taken) \ except
           IN  /\ M!Available(start, among, taken, except, gathered) \subseteq open
               /\ open # {} => M!Available(start, among, taken, except, gathered) # {}
<1> DEFINE open == (among \ taken) \ except
           w == columns - M!FirstColumn
           next(n) == M!FirstColumn + ((start - M!FirstColumn + n) % w)
           fits(n) == n \in 1 .. columns /\ next(n) \in open /\ \A m \in 1 .. n - 1 : next(m) \notin open
<1>1. M!Open(among, taken, except) = open
  BY DEF M!Open
<1>2. CASE start \in open \/ open = {} \/ ~gathered
  BY <1>1, <1>2 DEF M!Available
<1>3. CASE start \notin open /\ open # {} /\ gathered
  <2>1. PICK o \in open : TRUE
    BY <1>3
  <2>2. /\ start \in M!FirstColumn .. columns - 1 /\ o \in M!FirstColumn .. columns - 1 /\ start # o
        /\ M!FirstColumn \in 0..1 /\ w \in Nat /\ w >= 2 /\ w <= columns
    BY <1>3, <2>1, UsableIs
  <2>3. \E n \in 1 .. columns : next(n) = o
    <3>1. CASE start < o
      <4>1. o - start \in 1 .. columns /\ start - M!FirstColumn + (o - start) = o - M!FirstColumn
        BY <2>2, <3>1
      <4>2. (o - M!FirstColumn) % w = o - M!FirstColumn
        BY <2>2, Wraps
      <4>3. next(o - start) = o
        BY <2>2, <4>1, <4>2
      <4>4. QED
        BY <4>1, <4>3
    <3>2. CASE start > o
      <4>1. o - start + w \in 1 .. columns
            /\ start - M!FirstColumn + (o - start + w) = (o - M!FirstColumn) + w
        BY <2>2, <3>2
      <4>2. ((o - M!FirstColumn) + w) % w = o - M!FirstColumn
        BY <2>2, Wraps
      <4>3. next(o - start + w) = o
        BY <2>2, <4>1, <4>2
      <4>4. QED
        BY <4>1, <4>3
    <3>3. QED
      BY <2>2, <3>1, <3>2
  <2> HIDE DEF next
  <2>4. PICK n \in {m \in 1 .. columns : next(m) \in open} : \A m \in {l \in 1 .. columns : next(l) \in open} : n <= m
    <3>1. {m \in 1 .. columns : next(m) \in open} \in SUBSET Nat /\ {m \in 1 .. columns : next(m) \in open} # {}
      BY <2>1, <2>3
    <3>2. QED
      BY <3>1, SmallestOf, Zenon
  <2>5. fits(n)
    <3>1. ASSUME NEW m \in 1 .. n - 1 PROVE next(m) \notin open
      <4>1. m \in 1 .. columns /\ ~(n <= m)
        OBVIOUS
      <4>2. QED
        BY <2>4, <4>1
    <3>2. QED
      BY <2>4, <3>1
  <2> DEFINE first == CHOOSE m \in 1 .. columns : next(m) \in open /\ \A l \in 1 .. m - 1 : next(l) \notin open
  <2>6. next(first) \in open
    BY <2>5
  <2>7. M!Available(start, among, taken, except, gathered) = {next(first)}
    BY <1>1, <1>3 DEF M!Available, next
  <2>8. QED
    BY <2>6, <2>7
<1>4. QED
  BY <1>2, <1>3

(* A recursive function whose values are sets: if its steps lead from G[0]  *)
(* to G[1] and so on, there is one, and its values are in G.                *)
Unrolls(g, n, runs, S) == g = [k \in 0..n |-> IF k = 0 THEN runs ELSE UNION {S[k][r] : r \in g[k - 1]}]

Leads(n, runs, S, G) == runs \in SUBSET G[0] /\ \A k \in 1..n : \A r \in G[k - 1] : S[k][r] \in SUBSET G[k]
Within(g, n, G) == \A k \in 0..n : g[k] \in SUBSET G[k]

LEMMA Unfolds ==
    ASSUME NEW n \in Nat, NEW runs, NEW S, NEW G, Leads(n, runs, S, G)
    PROVE  \E g : Unrolls(g, n, runs, S) /\ Within(g, n, G)
<1> DEFINE all == UNION {G[k] : k \in 0..n}
           D == SUBSET all
           F == [k \in 1..n |-> [X \in D |-> UNION {S[k][r] : r \in X \cap G[k - 1]}]]
<1>0. runs \in SUBSET G[0] /\ \A k \in 1..n : \A r \in G[k - 1] : S[k][r] \in SUBSET G[k]
  BY Zenon DEF Leads
<1>1. runs \in D
  BY <1>0, 0 \in 0..n
<1>2. F \in [1..n -> [D -> D]]
  <2>1. ASSUME NEW k \in 1..n, NEW X \in D PROVE UNION {S[k][r] : r \in X \cap G[k - 1]} \in D
    <3>1. k \in 0..n
      OBVIOUS
    <3>2. G[k] \in SUBSET all
      BY <3>1
    <3>3. UNION {S[k][r] : r \in X \cap G[k - 1]} \subseteq G[k]
      BY <1>0, Zenon
    <3>4. QED
      BY <3>2, <3>3
  <2> HIDE DEF D
  <2>2. QED
    BY <2>1
<1> HIDE DEF D, F
<1>3. PICK g \in [0..n -> D] : g[0] = runs /\ \A k \in 1..n : g[k] = F[k][g[k - 1]]
  <2>1. Iterations(D, runs, n, F) # {}
    BY <1>1, <1>2, Recursion
  <2>2. QED
    BY <2>1 DEF Iterations
<1>4. ASSUME NEW k \in 1..n PROVE g[k] = UNION {S[k][r] : r \in g[k - 1] \cap G[k - 1]}
  <2>1. g[k - 1] \in D
    <3>1. k - 1 \in 0..n
      OBVIOUS
    <3>2. QED
      BY <1>3, <3>1
  <2>2. QED
    BY <1>3, <2>1, Zenon DEF F
<1> DEFINE T == {k \in 0..n : g[k] \in SUBSET G[k]}
<1>5. \A k \in 0..n : k \in T
  <2>1. 0 \in T
    BY <1>0, <1>3
  <2>2. ASSUME NEW k \in 1..n, k - 1 \in T PROVE k \in T
    <3>1. ASSUME NEW x \in g[k] PROVE x \in G[k]
      <4>1. PICK r \in g[k - 1] \cap G[k - 1] : x \in S[k][r]
        BY <1>4, <3>1
      <4>2. S[k][r] \in SUBSET G[k]
        BY <1>0, <4>1, Zenon
      <4>3. QED
        BY <4>1, <4>2
    <3>2. QED
      BY <3>1
  <2> HIDE DEF T
  <2>3. QED
    BY <2>1, <2>2, UpTo, Zenon
<1>6. \A k \in 0..n : g[k] = IF k = 0 THEN runs ELSE UNION {S[k][r] : r \in g[k - 1]}
  <2>1. ASSUME NEW k \in 1..n PROVE g[k] = UNION {S[k][r] : r \in g[k - 1]}
    <3>1. k - 1 \in 0..n
      OBVIOUS
    <3>2. g[k - 1] \cap G[k - 1] = g[k - 1]
      BY <1>5, <3>1
    <3>3. QED
      BY <1>4, <3>2
  <2>2. QED
    BY <1>3, <2>1
<1>7. g = [k \in 0..n |-> IF k = 0 THEN runs ELSE UNION {S[k][r] : r \in g[k - 1]}]
  BY <1>3, <1>6
<1>8. Within(g, n, G)
  BY <1>5 DEF Within
<1>9. QED
  BY <1>7, <1>8, Zenon DEF Unrolls

(* Runs that have written to at most k lanes, one note to each.             *)
Spread(k) ==
    {r \in ARun : /\ r.ok /\ r.col \in M!Usable /\ M!Lanes(r.notes) \subseteq M!Usable
                  /\ \A n, m \in r.notes : n.lane = m.lane => n = m
                  /\ IsFiniteSet(M!Lanes(r.notes)) /\ Cardinality(M!Lanes(r.notes)) <= k}

\* A run after it wrote.
Wrote(r, W, c) == [[r EXCEPT !.notes = W] EXCEPT !.col = c]

LEMMA Written ==
    ASSUME NEW r \in ARun, NEW W \in SUBSET ANote, NEW c \in Int
    PROVE  /\ Wrote(r, W, c) \in ARun /\ Wrote(r, W, c).notes = W
           /\ Wrote(r, W, c).col = c /\ Wrote(r, W, c).ok = r.ok
BY Zenon DEF ARun, Wrote

LEMMA TapsAre ==
    ASSUME NEW c \in Int, NEW at \in Int
    PROVE  /\ M!Tap(c, at) \in ANote /\ M!Tap(c, at).lane = c
           /\ M!Tap(c, at).at = at /\ M!Tap(c, at).until = at /\ M!Tap(c, at).second = FALSE
           /\ M!Tap(c, 0) \in ANote /\ M!Tap(c, 0).lane = c
BY DEF M!Tap, ANote

LEMMA SpreadsOn ==
    ASSUME columns \in Nat \ {0, 1}, NEW k \in Nat, NEW r \in Spread(k), NEW c \in M!Usable \ M!Lanes(r.notes),
           NEW note \in ANote, note.lane = c
    PROVE  Wrote(r, r.notes \cup {note}, c) \in Spread(k + 1)
<1> DEFINE W == r.notes \cup {note}
           q == Wrote(r, W, c)
<1>1. c \in Int /\ r \in ARun /\ r.notes \in SUBSET ANote /\ W \in SUBSET ANote
  BY UsableIs DEF Spread, ARun
<1> HIDE DEF W
<1>2. q \in ARun /\ q.notes = W /\ q.col = c /\ q.ok = r.ok
  BY <1>1, Written
<1> USE DEF W
<1>3. M!Lanes(W) = M!Lanes(r.notes) \cup {c}
  BY DEF M!Lanes
<1>4. /\ IsFiniteSet(M!Lanes(W)) /\ Cardinality(M!Lanes(W)) <= k + 1
  <2>1. IsFiniteSet(M!Lanes(r.notes)) /\ Cardinality(M!Lanes(r.notes)) <= k
    BY DEF Spread
  <2>2. Cardinality(M!Lanes(r.notes)) \in Nat
    BY <2>1, FS_CardinalityType
  <2> DEFINE lanes == M!Lanes(r.notes)
  <2>3. c \notin lanes /\ IsFiniteSet(lanes)
    BY <2>1
  <2> HIDE DEF lanes
  <2>4. IsFiniteSet(lanes \cup {c}) /\ Cardinality(lanes \cup {c}) = Cardinality(lanes) + 1
    BY <2>3, FS_AddElement, Zenon
  <2>5. Cardinality(lanes \cup {c}) <= k + 1
    BY <2>1, <2>2, <2>4 DEF lanes
  <2>6. M!Lanes(W) = lanes \cup {c}
    BY <1>3, Zenon DEF lanes
  <2>7. QED
    BY <2>4, <2>5, <2>6, Zenon
<1>5. \A n, m \in W : n.lane = m.lane => n = m
  <2>1. \A n \in r.notes : n.lane # c
    BY DEF M!Lanes
  <2>2. \A n, m \in r.notes : n.lane = m.lane => n = m
    BY DEF Spread
  <2>3. QED
    BY <2>1, <2>2
<1>6. M!Lanes(W) \subseteq M!Usable /\ r.ok
  BY <1>3 DEF Spread
<1> HIDE DEF W, q
<1>7. q \in Spread(k + 1)
  BY <1>2, <1>4, <1>5, <1>6, Zenon DEF Spread
<1>8. QED
  BY <1>7 DEF q, W

(* get_random_note_count: a chance of nothing leaves out its count, and     *)
(* those above that have none either.                                       *)
LEMMA CountsAre ==
    ASSUME NEW p2 \in Int, NEW p3 \in Int, NEW p4 \in Int, NEW p5 \in Int
    PROVE  /\ M!Counts(p2, p3, p4, p5) \subseteq 1..5
           /\ p5 = 0 => M!Counts(p2, p3, p4, p5) \subseteq 1..4
           /\ p5 = 0 /\ p4 = 0 => M!Counts(p2, p3, p4, p5) \subseteq 1..3
           /\ p5 = 0 /\ p4 = 0 /\ p3 = 0 => M!Counts(p2, p3, p4, p5) \subseteq 1..2
           /\ p5 = 0 /\ p4 = 0 /\ p3 = 0 /\ p2 = 0 => M!Counts(p2, p3, p4, p5) \subseteq {1}
<1>1. ASSUME NEW n \in M!Counts(p2, p3, p4, p5)
      PROVE  /\ n \in 1..5
             /\ n = 5 => p5 > 0
             /\ n = 4 => p4 > p5
             /\ n = 3 => p3 > M!Max({p4, p5})
             /\ n = 2 => p2 > M!Max({p3, p4, p5})
  <2>1. n \in 1..5
    BY DEF M!Counts
  <2>2. CASE n = 5
    BY <2>1, <2>2 DEF M!Counts
  <2>3. CASE n = 4
    BY <2>1, <2>3 DEF M!Counts
  <2>4. CASE n = 3
    BY <2>1, <2>4 DEF M!Counts
  <2>5. CASE n = 2
    BY <2>1, <2>5 DEF M!Counts
  <2>6. QED
    BY <2>1, <2>2, <2>3, <2>4, <2>5
<1>2. M!Max({p4, p5}) = IF p4 >= p5 THEN p4 ELSE p5
  BY OfTwo
<1>3. M!Max({p3, p4, p5}) >= p3 /\ M!Max({p3, p4, p5}) \in Int
  BY OfThree, Zenon
<1>4. QED
  BY <1>1, <1>2, <1>3

LEMMA CountsUpTo ==
    ASSUME NEW p2 \in Int, NEW p3 \in Int, NEW p4 \in Int
    PROVE  /\ M!Counts(p2, p3, p4, 0) \subseteq 1..4
           /\ M!Counts(p2, p3, 0, 0) \subseteq 1..3
           /\ M!Counts(p2, 0, 0, 0) \subseteq 1..2
           /\ M!Counts(0, 0, 0, 0) \subseteq {1}
<1> DEFINE z == 0
<1>1. z \in Int /\ z = 0
  OBVIOUS
<1> HIDE DEF z
<1>2. /\ M!Counts(p2, p3, p4, z) \subseteq 1..4
      /\ M!Counts(p2, p3, z, z) \subseteq 1..3
      /\ M!Counts(p2, z, z, z) \subseteq 1..2
      /\ M!Counts(z, z, z, z) \subseteq {1}
  BY <1>1, CountsAre
<1>3. QED
  BY <1>2 DEF z

LEMMA CircleCountsFit ==
    ASSUME columns \in Nat \ {0, 1}, NEW h, NEW p2 \in Int, NEW p3 \in Int, NEW p4 \in Int, NEW p5 \in Int,
           NEW n \in M!CircleCounts(h, p2, p3, p4, p5)
    PROVE  n \in 1..5 /\ n <= columns - M!FirstColumn
<1> DEFINE two(p) == IF "clap" \in h.sound THEN 1000 ELSE p
<1>1. ASSUME NEW i \in Int, NEW j \in Int PROVE M!Least(i, j) \in Int
  BY OfTwo, Zenon
<1>2. \A p \in Int : two(p) \in Int
  OBVIOUS
<1> HIDE DEF two
<1> DEFINE low2 == M!Least(p2, 100)
           mid2 == M!Least(p2, 230)
           low3 == M!Least(p3, 40)
           mid3 == M!Least(p3, 150)
           low4 == M!Least(p4, 30)
<1>20. low2 \in Int /\ mid2 \in Int /\ low3 \in Int /\ mid3 \in Int /\ low4 \in Int
  <2>1. 100 \in Int /\ 230 \in Int /\ 40 \in Int /\ 150 \in Int /\ 30 \in Int
    OBVIOUS
  <2>2. QED
    BY <1>1, <2>1, Zenon
<1> HIDE DEF low2, mid2, low3, mid3, low4
<1>21. two(low2) \in Int /\ two(mid2) \in Int /\ two(p2) \in Int
  BY <1>2, <1>20
<1>3. columns = 2 => n \in M!Counts(two(0), 0, 0, 0)
  BY DEF M!CircleCounts, two
<1>4. columns = 3 => n \in M!Counts(two(low2), 0, 0, 0)
  BY DEF M!CircleCounts, two, low2
<1>5. columns = 4 => n \in M!Counts(two(mid2), low3, 0, 0)
  BY DEF M!CircleCounts, two, mid2, low3
<1>6. columns = 5 => n \in M!Counts(two(p2), mid3, low4, 0)
  BY DEF M!CircleCounts, two, mid3, low4
<1>7. columns \notin 2..5 => n \in M!Counts(two(p2), p3, p4, p5)
  BY DEF M!CircleCounts, two
<1>8. columns = 2 => n \in 1..2
  BY <1>2, <1>3, CountsUpTo
<1>9. columns = 3 => n \in 1..2
  BY <1>4, <1>20, <1>21, CountsUpTo
<1>10. columns = 4 => n \in 1..3
  BY <1>5, <1>20, <1>21, CountsUpTo
<1>11. columns = 5 => n \in 1..4
  BY <1>6, <1>20, <1>21, CountsUpTo
<1>12. columns \notin 2..5 => n \in 1..5
  BY <1>2, <1>7, CountsAre, Zenon
<1>13. QED
  BY <1>8, <1>9, <1>10, <1>11, <1>12, UsableIs

(* Columns are free while fewer were written to than are left over.        *)
LEMMA DrawFindsOne ==
    ASSUME columns \in Nat \ {0, 1}, NEW k \in Nat, NEW r \in Spread(k), NEW P \in SUBSET (0..columns - 1),
           k + Cardinality(P) < columns - M!FirstColumn, NEW gathered \in BOOLEAN
    PROVE  LET free == M!Available(r.col, M!Usable, M!Lanes(r.notes) \cup P, {}, gathered)
           IN  free # {} /\ free \subseteq M!Usable \ M!Lanes(r.notes)
<1> DEFINE lanes == M!Lanes(r.notes)
<1>1. IsFiniteSet(lanes) /\ Cardinality(lanes) <= k /\ Cardinality(lanes) \in Nat /\ r.col \in M!Usable
  BY FS_CardinalityType DEF Spread
<1>2. IsFiniteSet(P) /\ Cardinality(P) \in Nat
  <2>1. IsFiniteSet(0..columns - 1)
    BY FS_Interval
  <2>2. QED
    BY <2>1, FS_Subset, FS_CardinalityType, Zenon
<1> HIDE DEF lanes
<1>3. IsFiniteSet(lanes \cup P) /\ Cardinality(lanes \cup P) <= k + Cardinality(P)
  <2>1. IsFiniteSet(lanes \cap P) /\ Cardinality(lanes \cap P) \in Nat
    BY <1>1, FS_Subset, FS_CardinalityType
  <2>2. IsFiniteSet(lanes \cup P) /\ Cardinality(lanes \cup P) = Cardinality(lanes) + Cardinality(P) - Cardinality(lanes \cap P)
    BY <1>1, <1>2, FS_Union
  <2>3. QED
    BY <1>1, <1>2, <2>1, <2>2
<1>4. (M!FirstColumn .. columns - 1) \ (lanes \cup P) # {}
  <2>1. Cardinality(lanes \cup P) \in Nat
    BY <1>3, FS_CardinalityType
  <2>2. Cardinality(lanes \cup P) < (columns - 1) - M!FirstColumn + 1
    BY <1>2, <1>3, <2>1, UsableIs
  <2>3. M!FirstColumn \in Int /\ columns - 1 \in Int /\ M!FirstColumn <= columns - 1
    BY UsableIs
  <2>4. QED
    BY <1>3, <2>2, <2>3, OneIsFree
<1>5. M!Usable \ (lanes \cup P) # {}
  BY <1>4, UsableIs
<1>6. /\ M!Available(r.col, M!Usable, lanes \cup P, {}, gathered) \subseteq M!Usable \ (lanes \cup P)
      /\ M!Available(r.col, M!Usable, lanes \cup P, {}, gathered) # {}
  BY <1>1, <1>5, AvailableIsOpen
<1>7. QED
  BY <1>6, Zenon DEF lanes

LEMMA SpreadsGrow ==
    ASSUME NEW k \in Nat, NEW l \in Nat, k <= l
    PROVE  Spread(k) \subseteq Spread(l)
<1>1. ASSUME NEW r \in Spread(k) PROVE r \in Spread(l)
  <2>1. Cardinality(M!Lanes(r.notes)) \in Nat
    BY FS_CardinalityType DEF Spread
  <2>2. Cardinality(M!Lanes(r.notes)) <= l
    BY <2>1 DEF Spread
  <2>3. QED
    BY <2>2 DEF Spread
<1>2. QED
  BY <1>1

LEMMA SpreadsFromNothing ==
    ASSUME NEW c \in M!Usable, columns \in Nat \ {0, 1}
    PROVE  M!Run({}, c) \in Spread(0)
<1>1. M!Lanes({}) = {}
  BY DEF M!Lanes
<1>2. c \in Int
  BY UsableIs
<1>3. QED
  BY <1>1, <1>2, FS_EmptySet DEF M!Run, Spread, ARun

(* circle_gen_random_notes.                                                 *)
LEMMA RandomNotesSpread ==
    ASSUME LanesInv, NEW h, h.x \in Nat, NEW ct, NEW count \in Nat, count <= columns - M!FirstColumn
    PROVE  M!RandomNotes(h, ct, count) \subseteq Spread(count)
<1> DEFINE apart == "notStack" \in ct
           gathered == "gathered" \in ct
           P == IF apart THEN prev ELSE {}
           n0 == IF apart THEN M!Least(count, columns - M!FirstColumn - M!Cardinality(prev)) ELSE count
           n == IF n0 < 0 THEN 0 ELSE n0
           free(r) == M!Available(r.col, M!Usable, M!Lanes(r.notes) \union P, {}, gathered)
           St(r) == M!Then(r, free(r), LAMBDA ns, c : ns \union {M!Tap(c, 0)})
           runs == {M!Run({}, M!Column(h.x))}
           Rec(f) == f = [k \in 0..n |-> IF k = 0 THEN runs ELSE UNION {St(r) : r \in f[k - 1]}]
<1>1. M!RandomNotes(h, ct, count) = (CHOOSE f : Rec(f))[n]
  BY Zenon DEF M!RandomNotes, M!Times
<1>2. n \in Nat /\ n <= count /\ (n = 0 \/ n + Cardinality(P) <= columns - M!FirstColumn) /\ P \in SUBSET (0..columns - 1)
  <2>1. IsFiniteSet(prev) /\ Cardinality(prev) \in Nat /\ M!Cardinality(prev) = Cardinality(prev)
    <3>1. IsFiniteSet(0..columns - 1)
      BY FS_Interval DEF LanesInv
    <3>2. QED
      BY <3>1, FS_Subset, FS_CardinalityType, CountsOfSets, Zenon DEF LanesInv
  <2> DEFINE room == columns - M!FirstColumn - M!Cardinality(prev)
  <2>2. columns - M!FirstColumn \in Int /\ room \in Int /\ count \in Int
    BY <2>1, UsableIs DEF LanesInv
  <2> HIDE DEF room
  <2>3. M!Least(count, room) = IF count <= room THEN count ELSE room
    BY <2>2, OfTwo, Zenon
  <2> USE DEF room
  <2>4. CASE apart
    BY <2>1, <2>2, <2>3, <2>4 DEF LanesInv
  <2>5. CASE ~apart
    BY <2>2, <2>5, FS_EmptySet DEF LanesInv
  <2>6. QED
    BY <2>4, <2>5
<1> HIDE DEF n0, n, P, gathered
<1>3. ASSUME NEW k \in 1..n, NEW r \in Spread(k - 1) PROVE St(r) \in SUBSET Spread(k)
  <2>1. k - 1 \in Nat /\ (k - 1) + 1 = k /\ columns \in Nat \ {0, 1} /\ gathered \in BOOLEAN
    BY <1>2 DEF LanesInv, gathered
  <2>2. (k - 1) + Cardinality(P) < columns - M!FirstColumn
    <3>1. Cardinality(P) \in Nat
      <4>1. IsFiniteSet(0..columns - 1)
        BY <2>1, FS_Interval
      <4>2. QED
        BY <1>2, <4>1, FS_Subset, FS_CardinalityType, Zenon
    <3>2. QED
      BY <1>2, <2>1, <3>1, UsableIs
  <2>3. free(r) # {} /\ free(r) \subseteq M!Usable \ M!Lanes(r.notes)
    BY <1>2, <2>1, <2>2, DrawFindsOne, Zenon
  <2> HIDE DEF free, St
  <2>4. r.ok
    BY DEF Spread
  <2>5. ASSUME NEW q \in St(r) PROVE q \in Spread(k)
    <3>1. PICK c \in free(r) : q = Wrote(r, r.notes \cup {M!Tap(c, 0)}, c)
      BY <2>3, <2>4, <2>5, Zenon DEF M!Then, Wrote, St
    <3>2. c \in M!Usable \ M!Lanes(r.notes) /\ c \in Int
      BY <2>1, <2>3, UsableIs
    <3>3. M!Tap(c, 0) \in ANote /\ M!Tap(c, 0).lane = c
      BY <3>2, TapsAre, Zenon
    <3>4. QED
      BY <2>1, <3>1, <3>2, <3>3, SpreadsOn
  <2>6. QED
    BY <2>5
<1> HIDE DEF St
<1>4. runs \in SUBSET Spread(0)
  BY SpreadsFromNothing, ColumnIsUsable DEF LanesInv
<1> HIDE DEF runs
<1> DEFINE G == [k \in 0..n |-> Spread(k)]
           S == [k \in 1..n |-> [r \in Spread(k - 1) |-> St(r)]]
<1>5. PICK g : Unrolls(g, n, runs, S) /\ Within(g, n, G)
  <2>1. runs \in SUBSET G[0]
    BY <1>2, <1>4
  <2>2. \A k \in 1..n : \A r \in G[k - 1] : S[k][r] \in SUBSET G[k]
    BY <1>2, <1>3
  <2> HIDE DEF G, S
  <2>3. n \in Nat
    BY <1>2
  <2>4. Leads(n, runs, S, G)
    BY <2>1, <2>2, Zenon DEF Leads
  <2>5. QED
    BY <2>3, <2>4, Unfolds, Zenon
<1>6. Rec(g)
  <2>1. ASSUME NEW k \in 1..n PROVE {S[k][r] : r \in g[k - 1]} = {St(r) : r \in g[k - 1]}
    <3>1. k - 1 \in 0..n
      BY <1>2
    <3>2. g[k - 1] \in SUBSET Spread(k - 1)
      BY <1>5, <3>1 DEF Within
    <3>3. QED
      BY <3>2, Zenon
  <2> HIDE DEF S, G
  <2>2. ASSUME NEW k \in 0..n PROVE g[k] = IF k = 0 THEN runs ELSE UNION {St(r) : r \in g[k - 1]}
    <3>1. g[k] = IF k = 0 THEN runs ELSE UNION {S[k][r] : r \in g[k - 1]}
      BY <1>5, Zenon DEF Unrolls
    <3>2. CASE k = 0
      BY <3>1, <3>2
    <3>3. CASE k # 0
      <4>1. k \in 1..n
        BY <1>2, <3>3
      <4>2. QED
        BY <2>1, <3>1, <3>3, <4>1, Zenon
    <3>4. QED
      BY <3>2, <3>3
  <2>3. g = [k \in 0..n |-> g[k]]
    BY <1>5, Zenon DEF Unrolls
  <2>4. QED
    BY <2>2, <2>3, Zenon
<1> DEFINE f == CHOOSE h_ : Rec(h_)
           T == {k \in 0..n : f[k] \in SUBSET Spread(k)}
<1>7. Rec(f)
  BY <1>6, Zenon
<1> HIDE DEF f
<1>8. \A k \in 0..n : k \in T
  <2>1. 0 \in T
    BY <1>2, <1>4, <1>7
  <2>2. ASSUME NEW k \in 1..n, k - 1 \in T PROVE k \in T
    BY <1>2, <1>3, <1>7, <2>2
  <2> HIDE DEF T
  <2>3. QED
    BY <1>2, <2>1, <2>2, UpTo
<1>9. f[n] \subseteq Spread(n)
  BY <1>2, <1>8
<1>10. QED
  BY <1>1, <1>2, <1>9, SpreadsGrow DEF f

(* What NotesCanBePlayed asks of the notes of an object, and what the next  *)
(* object asks of its lanes.                                                *)
Playable(ns) ==
    /\ \A n \in ns : n.lane \in 0..columns - 1
    /\ \A n, m \in ns : n # m /\ n.lane = m.lane =>
          n.until < m.at \/ m.until < n.at \/ (columns = 8 /\ M!Second(n) = M!Second(m))
LeavesRoom(lanes) == columns = 8 => ~(M!Usable \subseteq lanes)
OutOfLanes == columns = 4 /\ difficulty > 65
Fine(r) == IF r.ok THEN Playable(r.notes) /\ LeavesRoom(M!Lanes(r.notes)) ELSE OutOfLanes

LEMMA FewLeaveRoom ==
    ASSUME NEW lanes, IsFiniteSet(lanes), Cardinality(lanes) <= 6
    PROVE  LeavesRoom(lanes)
<1>1. SUFFICES ASSUME columns = 8, M!Usable \subseteq lanes PROVE FALSE
  BY DEF LeavesRoom
<1>2. M!Usable = 1..7
  BY <1>1 DEF M!Usable, M!FirstColumn
<1>3. Cardinality(1..7) = 7
  <2> DEFINE one == 1
             seven == 7
  <2>1. one \in Int /\ seven \in Int /\ ~(one > seven) /\ seven - one + 1 = 7
    OBVIOUS
  <2> HIDE DEF one, seven
  <2>2. Cardinality(one..seven) = 7
    BY <2>1, FS_Interval
  <2>3. QED
    BY <2>2 DEF one, seven
<1>4. Cardinality(1..7) <= Cardinality(lanes) /\ Cardinality(lanes) \in Nat
  BY <1>1, <1>2, FS_Subset, FS_CardinalityType
<1>5. QED
  BY <1>3, <1>4

LEMMA SpreadIsFine ==
    ASSUME columns \in Nat \ {0, 1}, NEW k \in Nat, columns = 8 => k <= 6, NEW r \in Spread(k)
    PROVE  r \in ARun /\ r.ok /\ Fine(r) /\ (columns = 8 => 0 \notin M!Lanes(r.notes))
<1>1. /\ r \in ARun /\ r.ok /\ M!Lanes(r.notes) \subseteq M!Usable
      /\ \A n, m \in r.notes : n.lane = m.lane => n = m
      /\ IsFiniteSet(M!Lanes(r.notes)) /\ Cardinality(M!Lanes(r.notes)) <= k
  BY DEF Spread
<1>2. Playable(r.notes)
  <2>1. \A n \in r.notes : n.lane \in M!Lanes(r.notes)
    BY DEF M!Lanes
  <2>2. QED
    BY <1>1, <2>1, UsableIs DEF Playable
<1>3. LeavesRoom(M!Lanes(r.notes))
  <2>1. CASE columns = 8
    <3>1. Cardinality(M!Lanes(r.notes)) \in Nat
      BY <1>1, FS_CardinalityType
    <3>2. QED
      BY <1>1, <2>1, <3>1, FewLeaveRoom
  <2>2. CASE columns # 8
    BY <2>2 DEF LeavesRoom
  <2>3. QED
    BY <2>1, <2>2
<1>4. columns = 8 => 0 \notin M!Usable
  BY DEF M!Usable, M!FirstColumn
<1>5. QED
  BY <1>1, <1>2, <1>3, <1>4 DEF Fine

(* circle_add_special_column.                                               *)
LEMMA SpecialIsFine ==
    ASSUME columns \in Nat \ {0, 1}, NEW h, NEW runs,
           \A r \in runs : r \in ARun /\ Fine(r)
    PROVE  \A r \in M!WithSpecial(h, runs) : r \in ARun /\ Fine(r)
<1> SUFFICES ASSUME NEW q \in M!WithSpecial(h, runs) PROVE q \in ARun /\ Fine(q)
  OBVIOUS
<1> DEFINE W(r) == r.notes \cup {M!Tap(0, 0)}
<1>1. PICK r \in runs : \/ q = r
                        \/ q = [r EXCEPT !.notes = W(r)] /\ M!FirstColumn > 0 /\ 0 \notin M!Lanes(r.notes)
  BY DEF M!WithSpecial
<1>2. r \in ARun /\ Fine(r)
  BY <1>1
<1>3. CASE q = [r EXCEPT !.notes = W(r)] /\ M!FirstColumn > 0 /\ 0 \notin M!Lanes(r.notes)
  <2>1. M!Tap(0, 0) \in ANote /\ M!Tap(0, 0).lane = 0
    BY DEF M!Tap, ANote
  <2>2. W(r) \in SUBSET ANote
    BY <1>2, <2>1 DEF ARun
  <2>3. M!Lanes(W(r)) = M!Lanes(r.notes) \cup {0}
    BY <2>1 DEF M!Lanes
  <2> HIDE DEF W
  <2>4. q \in ARun /\ q.notes = W(r) /\ q.ok = r.ok
    BY <1>2, <1>3, <2>2 DEF ARun
  <2>5. columns = 8
    BY <1>3, UsableIs
  <2>6. r.ok /\ Playable(r.notes) /\ LeavesRoom(M!Lanes(r.notes))
    BY <1>2, <2>5 DEF Fine, OutOfLanes
  <2>7. Playable(W(r))
    <3>1. \A n \in r.notes : n.lane # 0
      BY <1>3 DEF M!Lanes
    <3>2. \A n \in W(r) : n \in r.notes \/ (n = M!Tap(0, 0) /\ n.lane = 0)
      BY <2>1 DEF W
    <3>3. ASSUME NEW n \in W(r) PROVE n.lane \in 0..columns - 1
      BY <2>5, <2>6, <3>2 DEF Playable
    <3>4. ASSUME NEW n \in W(r), NEW m \in W(r), n # m, n.lane = m.lane
          PROVE  n.until < m.at \/ m.until < n.at \/ (columns = 8 /\ M!Second(n) = M!Second(m))
      <4>1. n \in r.notes /\ m \in r.notes
        BY <3>1, <3>2, <3>4
      <4>2. QED
        BY <2>6, <3>4, <4>1 DEF Playable
    <3>5. QED
      BY <3>3, <3>4 DEF Playable
  <2>8. LeavesRoom(M!Lanes(W(r)))
    <3>1. 0 \notin M!Usable
      BY <2>5 DEF M!Usable, M!FirstColumn
    <3>2. QED
      BY <2>3, <2>6, <3>1 DEF LeavesRoom
  <2>9. QED
    BY <2>4, <2>6, <2>7, <2>8 DEF Fine
<1>4. QED
  BY <1>1, <1>2, <1>3

LEMMA SecondsAre ==
    ASSUME NEW n \in ANote
    PROVE  /\ M!Second(n) \in ANote /\ M!Second(n).lane = n.lane /\ M!Second(n).at = n.at
           /\ M!Second(n).until = n.until /\ M!Second(n).second = TRUE
           /\ \A m \in ANote : n.lane = m.lane /\ n.at = m.at /\ n.until = m.until => M!Second(n) = M!Second(m)
           /\ \A m \in ANote : n.lane = m.lane /\ n.at = m.at /\ n.until = m.until /\ n.second = m.second => n = m
<1>1. \A m \in ANote : m = [lane |-> m.lane, at |-> m.at, until |-> m.until, second |-> m.second]
  BY DEF ANote
<1>2. \A m \in ANote : /\ M!Second(m) \in ANote /\ M!Second(m).lane = m.lane /\ M!Second(m).at = m.at
                       /\ M!Second(m).until = m.until /\ M!Second(m).second = TRUE
  BY Zenon DEF ANote, M!Second
<1>3. ASSUME NEW m \in ANote, n.lane = m.lane, n.at = m.at, n.until = m.until
      PROVE  M!Second(n) = M!Second(m) /\ (n.second = m.second => n = m)
  <2> DEFINE N == M!Second(n)
             C == M!Second(m)
  <2>1. N \in ANote /\ C \in ANote /\ N.lane = C.lane /\ N.at = C.at /\ N.until = C.until /\ N.second = C.second
    BY <1>2, <1>3, Zenon
  <2> HIDE DEF N, C
  <2>2. N = C
    BY <1>1, <2>1, Zenon
  <2>3. ASSUME n.second = m.second PROVE n = m
    BY <1>1, <1>3, <2>3, Zenon
  <2>4. QED
    BY <2>2, <2>3 DEF N, C
<1>4. QED
  BY <1>2, <1>3

(* circle_gen_mirrored draws in one half and writes to both.               *)
Half == M!FirstColumn .. M!FirstColumn + columns \div 2 - 1
LEMMA HalfIs ==
    ASSUME columns \in Nat \ {0, 1}
    PROVE  /\ columns \div 2 \in Nat /\ columns \div 2 >= 1 /\ 2 * (columns \div 2) <= columns
           /\ columns <= 2 * (columns \div 2) + 1 /\ (columns % 2 = 1 => columns = 2 * (columns \div 2) + 1)
           /\ Half \subseteq M!Usable /\ \A c \in Half : M!Mirrored(c) \in M!Usable
           /\ \A c, d \in Half : c = M!Mirrored(d) => c = d /\ columns = 8
           /\ \A c, d \in Half : M!Mirrored(c) = M!Mirrored(d) => c = d
<1> DEFINE h == columns \div 2
<1>1. h \in Nat /\ h >= 1 /\ 2 * h <= columns /\ columns <= 2 * h + 1 /\ (columns % 2 = 1 => columns = 2 * h + 1)
  OBVIOUS
<1>2. Half = M!FirstColumn .. M!FirstColumn + h - 1 /\ M!FirstColumn \in 0..1 /\ (M!FirstColumn = 1 <=> columns = 8)
  BY UsableIs DEF Half
<1> HIDE DEF h
<1>3. Half \subseteq M!Usable
  BY <1>1, <1>2, UsableIs
<1>4. \A c, d \in Half : c = M!Mirrored(d) => c = d /\ columns = 8
  <2>1. SUFFICES ASSUME NEW c \in Half, NEW d \in Half, c = M!Mirrored(d) PROVE c = d /\ columns = 8
    OBVIOUS
  <2>2. c \in Int /\ d \in Int /\ c + d = M!FirstColumn + columns - 1
        /\ c <= M!FirstColumn + h - 1 /\ d <= M!FirstColumn + h - 1
    BY <1>1, <1>2, <2>1 DEF M!Mirrored
  <2>3. QED
    BY <1>1, <1>2, <2>2
<1>5. QED
  BY <1>1, <1>3, <1>4, UsableIs DEF h

Pairs(C) == {M!Tap(c, 0) : c \in C} \cup {M!Second(M!Tap(M!Mirrored(c), 0)) : c \in C}
LEMMA PairsAre ==
    ASSUME columns \in Nat \ {0, 1}, NEW C \in SUBSET Half
    PROVE  /\ Pairs(C) \in SUBSET ANote
           /\ M!Lanes(Pairs(C)) = C \cup {M!Mirrored(c) : c \in C}
           /\ Half \ M!Lanes(Pairs(C)) = Half \ C
           /\ Playable(Pairs(C))
<1>1. \A c \in Half : /\ c \in M!Usable /\ c \in Int
                      /\ M!Mirrored(c) \in M!Usable /\ M!Mirrored(c) \in Int
  BY HalfIs, UsableIs
<1> DEFINE a(c) == M!Tap(c, 0)
           b(c) == M!Second(M!Tap(M!Mirrored(c), 0))
<1>2. \A c \in Int : a(c) \in ANote /\ a(c).lane = c /\ a(c).at = 0 /\ a(c).until = 0 /\ a(c).second = FALSE
  BY DEF ANote, M!Tap
<1>3. \A c \in Half : /\ b(c) \in ANote /\ b(c).lane = M!Mirrored(c) /\ b(c).at = 0 /\ b(c).until = 0
                      /\ b(c).second = TRUE
  <2> SUFFICES ASSUME NEW c \in Half
               PROVE  /\ b(c) \in ANote /\ b(c).lane = M!Mirrored(c) /\ b(c).at = 0 /\ b(c).until = 0
                      /\ b(c).second = TRUE
    BY Zenon
  <2> DEFINE d == M!Mirrored(c)
             t == a(d)
  <2>1. b(c) = M!Second(t)
    OBVIOUS
  <2> HIDE DEF a, b
  <2>2. d \in Int
    BY <1>1
  <2> HIDE DEF d
  <2>3. t \in ANote /\ t.lane = d /\ t.at = 0 /\ t.until = 0
    BY <1>2, <2>2
  <2> HIDE DEF t
  <2>4. b(c) \in ANote /\ b(c).lane = t.lane /\ b(c).at = t.at /\ b(c).until = t.until /\ b(c).second = TRUE
    BY <2>1, <2>3, SecondsAre, Zenon
  <2>5. QED
    BY <2>3, <2>4 DEF d
<1>4. Pairs(C) = {a(c) : c \in C} \cup {b(c) : c \in C}
  BY DEF Pairs
<1> HIDE DEF a, b
<1>5. Pairs(C) \in SUBSET ANote
  BY <1>1, <1>2, <1>3, <1>4
<1>6. M!Lanes(Pairs(C)) = C \cup {M!Mirrored(c) : c \in C}
  <2>1. ASSUME NEW l \in M!Lanes(Pairs(C)) PROVE l \in C \cup {M!Mirrored(c) : c \in C}
    BY <1>1, <1>2, <1>3, <1>4, <2>1 DEF M!Lanes
  <2>2. ASSUME NEW c \in C PROVE c \in M!Lanes(Pairs(C)) /\ M!Mirrored(c) \in M!Lanes(Pairs(C))
    <3>1. a(c) \in Pairs(C) /\ a(c).lane = c
      BY <1>1, <1>2, <1>4
    <3>2. b(c) \in Pairs(C) /\ b(c).lane = M!Mirrored(c)
      BY <1>3, <1>4
    <3>3. QED
      BY <3>1, <3>2 DEF M!Lanes
  <2>3. QED
    BY <2>1, <2>2
<1>7. Half \ M!Lanes(Pairs(C)) = Half \ C
  BY <1>6, HalfIs
<1>8. Playable(Pairs(C))
  <2>1. ASSUME NEW n \in Pairs(C) PROVE n.lane \in 0..columns - 1
    BY <1>1, <1>2, <1>3, <1>4, UsableIs
  <2>2. ASSUME NEW n \in Pairs(C), NEW m \in Pairs(C), n # m, n.lane = m.lane
        PROVE  columns = 8 /\ M!Second(n) = M!Second(m)
    <3>1. PICK c \in C : n = a(c) \/ n = b(c)
      BY <1>4
    <3>2. PICK d \in C : m = a(d) \/ m = b(d)
      BY <1>4
    <3>3. n.at = m.at /\ n.until = m.until /\ n \in ANote /\ m \in ANote
      BY <1>1, <1>2, <1>3, <3>1, <3>2
    <3>4. M!Second(n) = M!Second(m)
      BY <2>2, <3>3, SecondsAre, Zenon
    <3>5. ~(n = a(c) /\ m = a(d))
      BY <1>1, <1>2, <2>2
    <3>6. ~(n = b(c) /\ m = b(d))
      BY <1>3, <2>2, HalfIs
    <3>7. c = M!Mirrored(d) \/ d = M!Mirrored(c)
      BY <1>1, <1>2, <1>3, <2>2, <3>1, <3>2, <3>5, <3>6
    <3>8. QED
      BY <3>4, <3>7, HalfIs
  <2>3. QED
    BY <2>1, <2>2 DEF Playable
<1>9. QED
  BY <1>5, <1>6, <1>7, <1>8

\* After k draws: the lanes of one half that were drawn, or none was room.
Paired(k) == {r \in ARun : IF r.ok THEN \E C \in SUBSET Half : /\ r.notes = Pairs(C)
                                                               /\ IsFiniteSet(C) /\ Cardinality(C) <= k
                            ELSE OutOfLanes}
PairStep(r) == M!Then(r, M!Available(r.col, Half, M!Lanes(r.notes), {}, FALSE),
                      LAMBDA ns, c : ns \union {M!Tap(c, 0), M!Second(M!Tap(M!Mirrored(c), 0))})

LEMMA StepsPair ==
    ASSUME columns \in Nat \ {0, 1}, NEW k \in Nat \ {0}, k <= columns \div 2 \/ OutOfLanes, NEW r \in Paired(k - 1)
    PROVE  PairStep(r) \in SUBSET Paired(k)
<1> DEFINE free == M!Available(r.col, Half, M!Lanes(r.notes), {}, FALSE)
           W(c) == r.notes \cup {M!Tap(c, 0), M!Second(M!Tap(M!Mirrored(c), 0))}
<1>1. SUFFICES ASSUME NEW q \in PairStep(r) PROVE q \in Paired(k)
  OBVIOUS
<1>2. CASE ~r.ok
  <2>1. q = r
    BY <1>1, <1>2 DEF PairStep, M!Then
  <2>2. QED
    BY <1>2, <2>1 DEF Paired
<1>3. CASE r.ok
  <2>1. PICK C \in SUBSET Half : r.notes = Pairs(C) /\ IsFiniteSet(C) /\ Cardinality(C) <= k - 1
    BY <1>3 DEF Paired
  <2>2. Cardinality(C) \in Nat /\ r \in ARun
    BY <2>1, FS_CardinalityType DEF Paired
  <2>3. M!Lanes(r.notes) \cap Half = C
    <3>1. Half \ M!Lanes(Pairs(C)) = Half \ C
      BY PairsAre
    <3>2. QED
      BY <2>1, <3>1
  <2>4. (Half \ M!Lanes(r.notes)) \ {} = Half \ C
    BY <2>3
  <2> DEFINE lanes == M!Lanes(r.notes)
             nothing == {}
             no == FALSE
  <2> HIDE DEF lanes, nothing, no
  <2>5. free \subseteq Half \ C /\ (Half \ C # {} => free # {})
    <3>1. no \in BOOLEAN /\ (no => r.col \in M!Usable /\ Half = M!Usable)
      BY DEF no
    <3>2. /\ M!Available(r.col, Half, lanes, nothing, no) \subseteq (Half \ lanes) \ nothing
          /\ (Half \ lanes) \ nothing # {} => M!Available(r.col, Half, lanes, nothing, no) # {}
      BY <3>1, AvailableIsOpen
    <3>3. QED
      BY <2>4, <3>2, Zenon DEF lanes, nothing, no
  <2> HIDE DEF free, W
  <2>6. CASE free = {}
    <3>1. q = [r EXCEPT !.ok = FALSE]
      BY <1>1, <1>3, <2>6 DEF PairStep, M!Then, free
    <3>2. OutOfLanes
      <4> DEFINE a == M!FirstColumn
                 b == M!FirstColumn + columns \div 2 - 1
      <4>1. SUFFICES ASSUME k <= columns \div 2 PROVE (a .. b) \ C # {}
        BY <2>5, <2>6 DEF Half
      <4>2. a \in Int /\ b \in Int /\ a <= b /\ Cardinality(C) < b - a + 1
        BY <2>1, <2>2, <4>1, HalfIs, UsableIs
      <4> HIDE DEF a, b
      <4>3. QED
        BY <2>1, <4>2, OneIsFree
    <3>3. q \in ARun /\ ~q.ok
      BY <2>2, <3>1, Zenon DEF ARun
    <3>4. QED
      BY <3>2, <3>3 DEF Paired
  <2>7. CASE free # {}
    <3>1. PICK c \in free : q = Wrote(r, W(c), c)
      BY <1>1, <1>3, <2>7, Zenon DEF PairStep, M!Then, free, Wrote, W
    <3>2. c \in Half \ C /\ c \in Int
      BY <2>5, HalfIs, UsableIs
    <3> DEFINE K == C \cup {c}
    <3>3. K \in SUBSET Half /\ IsFiniteSet(K) /\ Cardinality(K) <= k
      <4>1. IsFiniteSet(K) /\ Cardinality(K) = Cardinality(C) + 1
        BY <2>1, <3>2, FS_AddElement, Zenon
      <4>2. QED
        BY <2>1, <2>2, <3>2, <4>1
    <3>4. W(c) = Pairs(K)
      BY <2>1 DEF Pairs, W
    <3> HIDE DEF K
    <3>5. Pairs(K) \in SUBSET ANote
      BY <3>3, PairsAre
    <3>6. q \in ARun /\ q.notes = W(c) /\ q.ok
      BY <1>3, <2>2, <3>1, <3>2, <3>4, <3>5, Written
    <3>7. QED
      BY <3>3, <3>4, <3>6 DEF Paired
  <2>8. QED
    BY <2>6, <2>7
<1>4. QED
  BY <1>2, <1>3

PairRuns(n) == M!Times(n, {M!Run({}, c) : c \in Half}, LAMBDA k, r : PairStep(r))

LEMMA RunsArePaired ==
    ASSUME columns \in Nat \ {0, 1}, NEW n \in Nat, n <= columns \div 2 \/ OutOfLanes
    PROVE  PairRuns(n) \subseteq Paired(n)
<1> DEFINE runs == {M!Run({}, c) : c \in Half}
           Rec(f) == f = [k \in 0..n |-> IF k = 0 THEN runs ELSE UNION {PairStep(r) : r \in f[k - 1]}]
<1>1. PairRuns(n) = (CHOOSE f : Rec(f))[n]
  BY Zenon DEF PairRuns, M!Times
<1>2. n \in Nat
  OBVIOUS
<1>3. ASSUME NEW k \in 1..n, NEW r \in Paired(k - 1) PROVE PairStep(r) \in SUBSET Paired(k)
  <2>1. k \in Nat \ {0} /\ (k <= columns \div 2 \/ OutOfLanes)
    BY HalfIs
  <2>2. QED
    BY <2>1, StepsPair
<1>4. runs \in SUBSET Paired(0)
  <2> SUFFICES ASSUME NEW c \in Half PROVE M!Run({}, c) \in Paired(0)
    OBVIOUS
  <2>1. Pairs({}) = {} /\ IsFiniteSet({}) /\ Cardinality({}) = 0 /\ c \in Int
    BY FS_EmptySet, HalfIs, UsableIs DEF Pairs
  <2>2. M!Run({}, c) \in ARun /\ M!Run({}, c).notes = {}
    BY <2>1 DEF M!Run, ARun
  <2>3. \E C \in SUBSET Half : {} = Pairs(C) /\ IsFiniteSet(C) /\ Cardinality(C) <= 0
    <3> WITNESS {} \in SUBSET Half
    <3>1. QED
      BY <2>1
  <2>4. QED
    BY <2>2, <2>3 DEF Paired, M!Run
<1> HIDE DEF runs
<1> DEFINE G == [k \in 0..n |-> Paired(k)]
           S == [k \in 1..n |-> [r \in Paired(k - 1) |-> PairStep(r)]]
<1>5. PICK g : Unrolls(g, n, runs, S) /\ Within(g, n, G)
  <2>1. runs \in SUBSET G[0]
    BY <1>2, <1>4
  <2>2. \A k \in 1..n : \A r \in G[k - 1] : S[k][r] \in SUBSET G[k]
    BY <1>2, <1>3
  <2> HIDE DEF G, S
  <2>3. n \in Nat
    BY <1>2
  <2>4. Leads(n, runs, S, G)
    BY <2>1, <2>2, Zenon DEF Leads
  <2>5. QED
    BY <2>3, <2>4, Unfolds, Zenon
<1>6. Rec(g)
  <2>1. ASSUME NEW k \in 1..n PROVE {S[k][r] : r \in g[k - 1]} = {PairStep(r) : r \in g[k - 1]}
    <3>1. k - 1 \in 0..n
      BY <1>2
    <3>2. g[k - 1] \in SUBSET Paired(k - 1)
      BY <1>5, <3>1, Zenon DEF Within
    <3>3. QED
      BY <3>2, Zenon
  <2> HIDE DEF S, G
  <2>2. ASSUME NEW k \in 0..n PROVE g[k] = IF k = 0 THEN runs ELSE UNION {PairStep(r) : r \in g[k - 1]}
    <3>1. g[k] = IF k = 0 THEN runs ELSE UNION {S[k][r] : r \in g[k - 1]}
      BY <1>5, Zenon DEF Unrolls
    <3>2. CASE k = 0
      BY <3>1, <3>2
    <3>3. CASE k # 0
      <4>1. k \in 1..n
        BY <1>2, <3>3
      <4>2. QED
        BY <2>1, <3>1, <3>3, <4>1, Zenon
    <3>4. QED
      BY <3>2, <3>3
  <2>3. g = [k \in 0..n |-> g[k]]
    BY <1>5, Zenon DEF Unrolls
  <2>4. QED
    BY <2>2, <2>3, Zenon
<1> DEFINE f == CHOOSE h_ : Rec(h_)
           T == {k \in 0..n : f[k] \in SUBSET Paired(k)}
<1>7. Rec(f)
  BY <1>6, Zenon
<1> HIDE DEF f
<1>8. \A k \in 0..n : k \in T
  <2>1. 0 \in T
    BY <1>2, <1>4, <1>7
  <2>2. ASSUME NEW k \in 1..n, k - 1 \in T PROVE k \in T
    <3>1. k \in 0..n /\ k - 1 \in 0..n /\ k # 0 /\ f[k - 1] \in SUBSET Paired(k - 1)
      BY <1>2, <2>2
    <3>2. f[k] = UNION {PairStep(r) : r \in f[k - 1]}
      BY <1>7, <3>1
    <3>3. ASSUME NEW x \in f[k] PROVE x \in Paired(k)
      <4>1. PICK r \in f[k - 1] : x \in PairStep(r)
        BY <3>2, <3>3
      <4>2. QED
        BY <1>3, <3>1, <4>1
    <3>4. QED
      BY <3>1, <3>3
  <2> HIDE DEF T
  <2>3. QED
    BY <1>2, <2>1, <2>2, UpTo
<1>9. f[n] \subseteq Paired(n)
  BY <1>2, <1>8
<1>10. QED
  BY <1>1, <1>9 DEF f

LEMMA PairedIsFine ==
    ASSUME columns \in Nat \ {0, 1}, NEW k \in Nat, k <= 3, NEW r \in Paired(k)
    PROVE  Fine(r) /\ (columns % 2 = 1 => LET W == r.notes \union {M!Tap(columns \div 2, 0)}
                                          IN  [r EXCEPT !.notes = W] \in ARun /\ Fine([r EXCEPT !.notes = W]))
<1> DEFINE W == r.notes \union {M!Tap(columns \div 2, 0)}
           q == [r EXCEPT !.notes = W]
           m == columns \div 2
<1>1. r \in ARun
  BY DEF Paired
<1>2. CASE ~r.ok
  BY <1>1, <1>2, HalfIs DEF Paired, Fine, OutOfLanes
<1>3. CASE r.ok
  <2>1. PICK C \in SUBSET Half : r.notes = Pairs(C) /\ IsFiniteSet(C) /\ Cardinality(C) <= k
    BY <1>3 DEF Paired
  <2>2. Playable(r.notes) /\ M!Lanes(r.notes) = C \cup {M!Mirrored(c) : c \in C} /\ r.notes \in SUBSET ANote
    BY <2>1, PairsAre
  <2>3. LeavesRoom(M!Lanes(r.notes))
    <3>1. SUFFICES ASSUME columns = 8, 1..7 \subseteq C \cup {M!Mirrored(c) : c \in C} PROVE FALSE
      BY <2>2 DEF LeavesRoom, M!Usable, M!FirstColumn
    <3>2. C \subseteq 1..4 /\ \A c \in C : M!Mirrored(c) = 8 - c
      <4>1. M!FirstColumn = 1 /\ columns \div 2 = 4
        BY <3>1 DEF M!FirstColumn
      <4>2. Half = 1..4
        BY <4>1 DEF Half
      <4>3. QED
        BY <3>1, <4>1, <4>2 DEF M!Mirrored
    <3>3. ASSUME NEW l \in 1..4 PROVE l \in C
      <4>1. 8 - l \in 1..7
        OBVIOUS
      <4>2. CASE 8 - l \in C
        BY <3>2, <4>2
      <4>3. CASE 8 - l \notin C
        <5>1. PICK c \in C : 8 - l = M!Mirrored(c)
          BY <3>1, <4>1, <4>3
        <5>2. QED
          BY <3>2, <5>1
      <4>4. QED
        BY <4>2, <4>3
    <3>4. Cardinality(1..4) = 4
      <4> DEFINE one == 1
                 four == 4
      <4>1. one \in Int /\ four \in Int /\ ~(one > four) /\ four - one + 1 = 4
        OBVIOUS
      <4> HIDE DEF one, four
      <4>2. Cardinality(one..four) = 4
        BY <4>1, FS_Interval
      <4>3. QED
        BY <4>2 DEF one, four
    <3>5. Cardinality(1..4) <= Cardinality(C) /\ Cardinality(C) \in Nat
      BY <2>1, <3>3, FS_Subset, FS_CardinalityType
    <3>6. QED
      BY <2>1, <3>4, <3>5
  <2>4. Fine(r)
    BY <1>3, <2>2, <2>3 DEF Fine
  <2>5. ASSUME columns % 2 = 1 PROVE q \in ARun /\ Fine(q)
    <3>1. m \in Nat /\ m >= 1 /\ columns = 2 * m + 1 /\ Half = 0..m - 1 /\ \A c \in Half : M!Mirrored(c) = columns - c - 1
      <4>1. M!FirstColumn = 0
        BY <2>5 DEF M!FirstColumn
      <4>2. m \in Nat /\ m >= 1 /\ columns = 2 * m + 1
        BY <2>5, HalfIs
      <4>3. QED
        BY <4>1, <4>2 DEF Half, M!Mirrored
    <3> HIDE DEF m
    <3>2. m \notin M!Lanes(r.notes)
      BY <2>2, <3>1
    <3>3. M!Tap(m, 0) \in ANote /\ M!Tap(m, 0).lane = m
      BY <3>1 DEF M!Tap, ANote
    <3> USE DEF m
    <3>4. W \in SUBSET ANote
      BY <2>2, <3>3
    <3> DEFINE t == M!Tap(m, 0)
    <3> HIDE DEF m, t
    <3>5. W = r.notes \cup {t}
      BY DEF m, t
    <3> HIDE DEF W
    <3>6. q \in ARun /\ q.notes = W /\ q.ok = r.ok
      BY <1>1, <3>4 DEF ARun
    <3>7. \A x \in r.notes : x.lane # m
      BY <3>2 DEF M!Lanes
    <3>8. t.lane = m
      BY <3>3 DEF t
    <3>9. Playable(W)
      BY <2>2, <3>1, <3>5, <3>7, <3>8 DEF Playable
    <3>10. LeavesRoom(M!Lanes(W))
      BY <3>1 DEF LeavesRoom
    <3>11. QED
      BY <1>3, <3>6, <3>9, <3>10 DEF Fine
  <2>6. QED
    BY <2>4, <2>5
<1>4. QED
  BY <1>2, <1>3

(* circle_gen_mirrored.                                                     *)
LEMMA MirroredIsFine ==
    ASSUME LanesInv, NEW h, h.x \in Nat, NEW ct, NEW r \in M!MirroredNotes(h, ct)
    PROVE  r \in ARun /\ Fine(r)
<1> DEFINE hard == difficulty > 65
           mid == difficulty > 40 /\ ~hard
           capped(p, least) == M!Max({0, 1000 - M!Max({2 * (1000 - p), least})})
           p2 == IF hard THEN 380 ELSE IF mid THEN 170 ELSE 0
           p3 == IF hard THEN 120 ELSE 0
           counts == CASE columns \in {2, 3} -> M!Counts(0, 0, 0, 0)
                       [] columns = 4 -> M!Counts(capped(p2, 800), p3, 0, 0)
                       [] columns = 5 -> M!Counts(p2, 0, 0, 0)
                       [] columns = 6 -> M!Counts(capped(p2, 500), capped(p3, 850), 0, 0)
                       [] OTHER -> M!Counts(p2, p3, 0, 0)
           centred(q) == [q EXCEPT !.notes = @ \union {M!Tap(columns \div 2, 0)}]
           all(n) == IF columns % 2 = 1 /\ n # 3 THEN PairRuns(n) \union {centred(q) : q \in PairRuns(n)}
                     ELSE PairRuns(n)
           drawn == IF hard THEN M!CircleCounts(h, 690, 380, 250, 120)
                    ELSE IF mid THEN M!CircleCounts(h, 585, 170, 85, 0) ELSE M!CircleCounts(h, 500, 0, 0, 0)
<1>1. columns \in Nat \ {0, 1} /\ difficulty \in Int
  BY DEF LanesInv
<1>2. M!MirroredNotes(h, ct) = IF "notStack" \in ct THEN UNION {M!RandomNotes(h, ct, n) : n \in drawn}
                               ELSE UNION {all(n) : n \in counts}
  BY Zenon DEF M!MirroredNotes, PairRuns, PairStep, Half
<1>3. CASE "notStack" \in ct
  <2>1. PICK n \in drawn : r \in M!RandomNotes(h, ct, n)
    <3> HIDE DEF drawn
    <3>1. QED
      BY <1>2, <1>3
  <2>2. n \in 1..5 /\ n <= columns - M!FirstColumn
    <3> DEFINE a == 690
               b == 380
               c == 250
               d == 120
               e == 585
               f == 170
               g == 85
               i == 500
               z == 0
    <3>1. /\ a \in Int /\ b \in Int /\ c \in Int /\ d \in Int /\ e \in Int /\ f \in Int /\ g \in Int /\ i \in Int
          /\ z \in Int
      OBVIOUS
    <3>2. drawn = IF hard THEN M!CircleCounts(h, a, b, c, d)
                  ELSE IF mid THEN M!CircleCounts(h, e, f, g, z) ELSE M!CircleCounts(h, i, z, z, z)
      OBVIOUS
    <3> HIDE DEF drawn, a, b, c, d, e, f, g, i, z
    <3>3. QED
      BY <1>1, <2>1, <3>1, <3>2, CircleCountsFit
  <2>3. r \in Spread(n)
    BY <2>1, <2>2, RandomNotesSpread
  <2>4. columns = 8 => n <= 6
    BY <2>2
  <2>5. QED
    BY <1>1, <2>2, <2>3, <2>4, SpreadIsFine
<1>4. CASE "notStack" \notin ct
  <2>1. PICK n \in counts : r \in all(n)
    <3> HIDE DEF counts, all
    <3>1. QED
      BY <1>2, <1>4
  <2>2. n \in 1..3 /\ (n <= columns \div 2 \/ OutOfLanes)
    <3>1. ASSUME NEW p \in Int, NEW least \in Int PROVE capped(p, least) \in Int
      <4> DEFINE x == 2 * (1000 - p)
                 y == 1000 - M!Max({x, least})
                 z == 0
      <4>1. x \in Int
        OBVIOUS
      <4> HIDE DEF x
      <4>2. M!Max({x, least}) \in Int
        BY <4>1, OfTwo
      <4>3. y \in Int /\ z \in Int
        BY <4>2
      <4> HIDE DEF y, z
      <4>4. M!Max({z, y}) \in Int
        BY <4>3, OfTwo, Zenon
      <4>5. QED
        BY <4>4 DEF x, y, z
    <3> HIDE DEF capped
    <3>2. p2 \in Int /\ p3 \in Int
      OBVIOUS
    <3> DEFINE c8 == capped(p2, 800)
               c5 == capped(p2, 500)
               c85 == capped(p3, 850)
    <3>3. c8 \in Int /\ c5 \in Int /\ c85 \in Int
      <4> HIDE DEF p2, p3, c8, c5, c85
      <4> DEFINE x == 800
                 y == 500
                 z == 850
      <4>1. x \in Int /\ y \in Int /\ z \in Int
        OBVIOUS
      <4> HIDE DEF x, y, z
      <4>2. capped(p2, x) \in Int /\ capped(p2, y) \in Int /\ capped(p3, z) \in Int
        BY <3>1, <3>2, <4>1
      <4>3. QED
        BY <4>2 DEF x, y, z, c8, c5, c85
    <3>4. p3 = 0 \/ hard
      OBVIOUS
    <3> HIDE DEF p2, p3, c8, c5, c85
    <3>5. columns \in {2, 3} => n \in {1}
      BY <2>1, CountsUpTo
    <3>6. columns = 4 => n \in M!Counts(c8, p3, 0, 0)
      BY <2>1 DEF c8
    <3>7. columns = 5 => n \in 1..2
      BY <2>1, <3>2, CountsUpTo
    <3>8. columns = 6 => n \in M!Counts(c5, c85, 0, 0)
      BY <2>1 DEF c5, c85
    <3>9. columns \notin 2..6 => n \in 1..3
      BY <2>1, <3>2, CountsUpTo
    <3>10. columns = 4 => n \in 1..3 /\ (p3 = 0 => n \in 1..2)
      <4>1. n \in M!Counts(c8, p3, 0, 0) => n \in 1..3
        BY <3>2, <3>3, CountsUpTo
      <4>2. n \in M!Counts(c8, 0, 0, 0) => n \in 1..2
        BY <3>3, CountsUpTo
      <4>3. QED
        BY <3>6, <4>1, <4>2
    <3>11. columns = 6 => n \in 1..3
      BY <3>3, <3>8, CountsUpTo
    <3> HIDE DEF counts, all
    <3>12. QED
      BY <1>1, <3>4, <3>5, <3>7, <3>9, <3>10, <3>11 DEF OutOfLanes
  <2> HIDE DEF counts
  <2>3. n \in Nat /\ n <= 3
    BY <2>2
  <2>4. PICK q \in PairRuns(n) : r = q \/ (columns % 2 = 1 /\ r = centred(q))
    BY <2>1
  <2>5. q \in Paired(n)
    BY <1>1, <2>2, <2>3, <2>4, RunsArePaired
  <2>6. q \in ARun /\ Fine(q)
    BY <1>1, <2>3, <2>5, PairedIsFine, Zenon DEF Paired
  <2>7. ASSUME columns % 2 = 1 PROVE centred(q) \in ARun /\ Fine(centred(q))
    BY <1>1, <2>3, <2>5, <2>7, PairedIsFine
  <2>8. QED
    BY <2>4, <2>6, <2>7, Zenon
<1>5. QED
  BY <1>3, <1>4

LEMMA RowIsFine ==
    ASSUME columns \in Nat \ {0, 1}, NEW C \in SUBSET (0..columns - 1), LeavesRoom(C), NEW r \in M!Row(C)
    PROVE  r \in ARun /\ Fine(r)
<1> DEFINE a(c) == M!Tap(c, 0)
<1>1. r = M!Run({a(c) : c \in C}, 0)
  BY DEF M!Row
<1>2. \A c \in C : a(c) \in ANote /\ a(c).lane = c
  BY DEF M!Tap, ANote
<1> HIDE DEF a
<1> DEFINE W == {a(c) : c \in C}
<1>3. \A w \in W : \E c \in C : w = a(c)
  OBVIOUS
<1>4. \A c \in C : a(c) \in W
  OBVIOUS
<1> HIDE DEF W
<1>5. W \in SUBSET ANote /\ (\A w \in W : w.lane \in C /\ w = a(w.lane)) /\ \A c \in C : \E w \in W : w.lane = c
  BY <1>2, <1>3, <1>4
<1>6. M!Lanes(W) = C
  BY <1>5, Zenon DEF M!Lanes
<1>7. Playable(W)
  BY <1>5, Zenon DEF Playable
<1>8. r = M!Run(W, 0)
  BY <1>1 DEF W
<1>9. r \in ARun /\ r.ok /\ r.notes = W
  BY <1>5, <1>8 DEF M!Run, ARun
<1>10. QED
  BY <1>6, <1>7, <1>9 DEF Fine

LEMMA OneLeavesRoom ==
    ASSUME NEW c
    PROVE  LeavesRoom({c})
<1>1. columns = 8 => 1 \in M!Usable /\ 2 \in M!Usable
  BY DEF M!Usable, M!FirstColumn
<1>2. QED
  BY <1>1 DEF LeavesRoom

(* circle_get_random_note_count, by the difficulty.                         *)
LEMMA CircleCountsOfFit ==
    ASSUME LanesInv, NEW h, NEW low, NEW n \in M!CircleCountsOf(h, low)
    PROVE  n \in 1..5 /\ n <= columns - M!FirstColumn
<1> DEFINE a == 780
           b == 420
           c == 1000
           d == 620
           e == 350
           f == 80
           g == 520
           i == 150
           j == 180
           k == 450
           z == 0
<1>1. /\ a \in Int /\ b \in Int /\ c \in Int /\ d \in Int /\ e \in Int /\ f \in Int /\ g \in Int /\ i \in Int
      /\ j \in Int /\ k \in Int /\ z \in Int
  OBVIOUS
<1>2. n \in M!CircleCounts(h, a, b, z, z) \cup M!CircleCounts(h, c, d, z, z) \cup M!CircleCounts(h, e, f, z, z)
           \cup M!CircleCounts(h, g, i, z, z) \cup M!CircleCounts(h, j, z, z, z) \cup M!CircleCounts(h, k, z, z, z)
           \cup M!CircleCounts(h, z, z, z, z)
  <2>1. difficulty \in Int
    BY DEF LanesInv
  <2>2. CASE difficulty > 65
    BY <2>1, <2>2 DEF M!CircleCountsOf
  <2>3. CASE difficulty > 40 /\ difficulty <= 65
    BY <2>1, <2>3 DEF M!CircleCountsOf
  <2>4. CASE difficulty > 20 /\ difficulty <= 40
    BY <2>1, <2>4 DEF M!CircleCountsOf
  <2>5. CASE difficulty <= 20
    BY <2>1, <2>5 DEF M!CircleCountsOf
  <2>6. QED
    BY <2>1, <2>2, <2>3, <2>4, <2>5
<1> HIDE DEF a, b, c, d, e, f, g, i, j, k, z
<1>3. columns \in Nat \ {0, 1}
  BY DEF LanesInv
<1>4. QED
  BY <1>1, <1>2, <1>3, CircleCountsFit

(* circle_generate.                                                         *)
LEMMA CirclesAreFine ==
    ASSUME LanesInv, NEW h, h.x \in Nat, NEW r \in M!CircleRuns(h)
    PROVE  r \in ARun /\ Fine(r)
<1> DEFINE ct == M!ConvertType(h)
           before == prev \cap M!Usable
           first == M!OneOfPrev
<1>1. columns \in Nat \ {0, 1} /\ prev \in SUBSET (0..columns - 1) /\ LeavesRoom(prev)
  BY DEF LanesInv, LeavesRoom
<1>2. M!Cardinality(prev) = 1 => first \in 0..columns - 1
  <2>1. IsFiniteSet(prev)
    <3>1. IsFiniteSet(0..columns - 1)
      BY <1>1, FS_Interval
    <3>2. QED
      BY <1>1, <3>1, FS_Subset, Zenon
  <2>2. M!Cardinality(prev) = 1 => prev # {}
    BY <2>1, CountsOfSets, FS_EmptySet
  <2>3. QED
    BY <1>1, <2>2, Zenon DEF M!OneOfPrev
<1>3. ASSUME NEW n \in Nat, n <= columns - M!FirstColumn, n <= 5, NEW q \in M!RandomNotes(h, ct, n)
      PROVE  q \in ARun /\ Fine(q)
  <2>1. q \in Spread(n)
    BY <1>3, RandomNotesSpread
  <2>2. columns = 8 => n <= 6
    BY <1>3
  <2>3. QED
    BY <1>1, <2>1, <2>2, SpreadIsFine
<1>4. CASE r \in M!Row({M!Mirrored(c) : c \in before})
  <2> DEFINE C == {M!Mirrored(c) : c \in before}
  <2>1. C \in SUBSET (0..columns - 1)
    BY <1>1, UsableIs
  <2>2. LeavesRoom(C)
    <3>1. SUFFICES ASSUME columns = 8, M!Usable \subseteq C PROVE FALSE
      BY DEF LeavesRoom
    <3>2. PICK u \in M!Usable : u \notin prev
      BY <1>1, <3>1 DEF LeavesRoom
    <3>3. PICK c \in before : M!Mirrored(c) = M!Mirrored(u)
      BY <1>1, <3>1, <3>2, UsableIs
    <3>4. QED
      BY <1>1, <3>2, <3>3, UsableIs
  <2> HIDE DEF C
  <2>3. QED
    BY <1>1, <1>4, <2>1, <2>2, RowIsFine DEF C
<1>5. CASE M!CanCycle /\ r \in M!Row({M!Mirrored(first)})
  <2>1. first \in M!Usable
    BY <1>1, <1>2, <1>5, UsableIs DEF M!CanCycle, M!Usable, M!FirstColumn
  <2> HIDE DEF first
  <2>2. {M!Mirrored(first)} \in SUBSET (0..columns - 1) /\ LeavesRoom({M!Mirrored(first)})
    BY <1>1, <2>1, UsableIs, OneLeavesRoom, Zenon
  <2>3. QED
    BY <1>1, <1>5, <2>2, RowIsFine
<1>6. CASE r \in M!Row(before)
  <2>1. before \in SUBSET (0..columns - 1) /\ LeavesRoom(before)
    BY <1>1, Zenon DEF LeavesRoom
  <2> HIDE DEF before
  <2>2. QED
    BY <1>1, <1>6, <2>1, RowIsFine
<1>7. CASE M!Climbs(ct) /\ r \in M!Row({M!Climbed})
  <2>1. M!Climbed \in 0..columns - 1
    BY <1>1, <1>2, <1>7, UsableIs DEF M!Climbs, M!Climbed
  <2>2. {M!Climbed} \in SUBSET (0..columns - 1) /\ LeavesRoom({M!Climbed})
    BY <2>1, OneLeavesRoom, Zenon
  <2>3. QED
    BY <1>1, <1>7, <2>2, RowIsFine
<1>8. CASE r \in M!RandomNotes(h, ct, 1)
  <2> DEFINE one == 1
  <2>1. one \in Nat /\ one <= columns - M!FirstColumn /\ one <= 5 /\ r \in M!RandomNotes(h, ct, one)
    BY <1>1, <1>8, UsableIs
  <2> HIDE DEF one, ct
  <2>2. QED
    BY <1>3, <2>1
<1>9. CASE r \in M!WithSpecial(h, M!MirroredNotes(h, ct))
  <2>1. \A q \in M!MirroredNotes(h, ct) : q \in ARun /\ Fine(q)
    BY MirroredIsFine
  <2>2. QED
    BY <1>1, <1>9, <2>1, SpecialIsFine
<1>10. CASE r \in M!WithSpecial(h, UNION {M!RandomNotes(h, ct, n) : n \in M!CircleCountsOf(h, "low" \in ct)})
  <2> DEFINE runs == UNION {M!RandomNotes(h, ct, n) : n \in M!CircleCountsOf(h, "low" \in ct)}
  <2>1. ASSUME NEW q \in runs PROVE q \in ARun /\ Fine(q)
    <3>1. PICK n \in M!CircleCountsOf(h, "low" \in ct) : q \in M!RandomNotes(h, ct, n)
      BY <2>1
    <3>2. n \in 1..5 /\ n <= columns - M!FirstColumn
      BY CircleCountsOfFit
    <3>3. n \in Nat /\ n <= 5
      BY <3>2
    <3> HIDE DEF ct
    <3>4. QED
      BY <1>3, <3>1, <3>2, <3>3
  <2> HIDE DEF runs
  <2>2. QED
    BY <1>1, <1>10, <2>1, SpecialIsFine DEF runs
<1>11. ~(columns <= 1)
  BY <1>1
<1>12. QED
  BY <1>4, <1>5, <1>6, <1>7, <1>8, <1>9, <1>10, <1>11 DEF M!CircleRuns

(* What becomes of a slider leaves room at the lanes where it ends.         *)
Slid(r, spans) == r \in ARun /\ r.ok /\ Playable(r.notes) /\ LeavesRoom(M!EndColumns(r.notes, spans))

(* Taps one after another, two at a time.                                   *)
Steps(ns, k) ==
    /\ ns \in SUBSET ANote
    /\ \A n \in ns : n.lane \in 0..columns - 1 /\ n.at \in 0..k - 1 /\ n.until = n.at
    /\ \A n, m \in ns : n.at = m.at => (n.second = m.second => n = m) /\ (n.lane = m.lane => n = m \/ columns = 8)

LEMMA StepsAreFinite ==
    ASSUME NEW k \in Nat, NEW ns, Steps(ns, k)
    PROVE  IsFiniteSet(ns)
<1> DEFINE S == (0..k - 1) \X BOOLEAN
           f == [n \in ns |-> <<n.at, n.second>>]
<1>1. IsFiniteSet(S)
  <2>1. IsFiniteSet(0..k - 1)
    BY FS_Interval
  <2>2. IsFiniteSet(BOOLEAN)
    <3>1. IsFiniteSet({TRUE}) /\ IsFiniteSet({FALSE})
      BY FS_Singleton, Zenon
    <3>2. IsFiniteSet({TRUE} \cup {FALSE})
      BY <3>1, FS_Union, Zenon
    <3>3. BOOLEAN = {TRUE} \cup {FALSE}
      BY Zenon
    <3>4. QED
      BY <3>2, <3>3, Zenon
  <2>3. QED
    BY <2>1, <2>2, FS_Product
<1>2. \A n \in ns : <<n.at, n.second>> \in S
  BY DEF Steps, ANote
<1>3. \A n, m \in ns : <<n.at, n.second>> = <<m.at, m.second>> => n = m
  BY DEF Steps
<1> HIDE DEF S
<1>4. f \in Injection(ns, S)
  BY <1>2, <1>3 DEF Injection, IsInjective
<1> HIDE DEF f
<1>5. QED
  BY <1>1, <1>4, FS_Injection

LEMMA StepsAreFine ==
    ASSUME columns \in Nat \ {0, 1}, NEW k \in Nat, NEW spans, NEW r \in ARun, r.ok, Steps(r.notes, k)
    PROVE  Slid(r, spans)
<1> DEFINE ns == r.notes
<1>1. Playable(ns)
  <2>1. ASSUME NEW n \in ns, NEW m \in ns, n # m, n.lane = m.lane
        PROVE  n.until < m.at \/ m.until < n.at \/ (columns = 8 /\ M!Second(n) = M!Second(m))
    <3>1. n \in ANote /\ m \in ANote /\ n.at \in Nat /\ m.at \in Nat /\ n.until = n.at /\ m.until = m.at
      BY DEF Steps
    <3>2. CASE n.at = m.at
      <4>1. columns = 8
        BY <2>1, <3>2 DEF Steps
      <4>2. n.lane = m.lane /\ n.at = m.at /\ n.until = m.until
        BY <2>1, <3>1, <3>2
      <4>3. M!Second(n) = M!Second(m)
        BY <3>1, <4>2, SecondsAre, Zenon
      <4>4. QED
        BY <4>1, <4>3
    <3>3. CASE n.at # m.at
      BY <3>1, <3>3
    <3>4. QED
      BY <3>2, <3>3
  <2>2. QED
    BY <2>1 DEF Playable, Steps
<1>2. LeavesRoom(M!EndColumns(ns, spans))
  <2>1. CASE M!Cardinality(ns) = 1
    <3>1. Cardinality(ns) = 1 /\ IsFiniteSet(ns)
      BY <2>1, CountsOfSets, StepsAreFinite
    <3>2. PICK n : ns = {n}
      BY <3>1, FS_Singleton, Zenon
    <3>3. M!EndColumns(ns, spans) = {n.lane}
      BY <2>1, <3>2 DEF M!EndColumns, M!Lanes
    <3>4. QED
      BY <3>3, OneLeavesRoom, Zenon
  <2>2. CASE M!Cardinality(ns) # 1
    <3>1. SUFFICES ASSUME columns = 8, M!Usable \subseteq M!EndColumns(ns, spans) PROVE FALSE
      BY DEF LeavesRoom
    <3>2. {1, 2, 3} \subseteq M!Lanes({n \in ns : n.until = spans})
      BY <2>2, <3>1 DEF M!EndColumns, M!Usable, M!FirstColumn
    <3>3. PICK a \in ns, b \in ns, c \in ns : /\ a.until = spans /\ b.until = spans /\ c.until = spans
                                              /\ a.lane = 1 /\ b.lane = 2 /\ c.lane = 3
      <4>1. ASSUME NEW l \in {1, 2, 3} PROVE \E n \in ns : n.until = spans /\ n.lane = l
        BY <3>2 DEF M!Lanes
      <4>2. QED
        BY <4>1
    <3>4. a.at = b.at /\ b.at = c.at /\ a.second \in BOOLEAN /\ b.second \in BOOLEAN /\ c.second \in BOOLEAN
      BY <3>3 DEF Steps, ANote
    <3>5. a = b \/ b = c \/ a = c
      BY <3>4 DEF Steps
    <3>6. QED
      BY <3>3, <3>5
  <2>3. QED
    BY <2>1, <2>2
<1>3. QED
  BY <1>1, <1>2 DEF Slid

LEMMA StepsGoOn ==
    ASSUME columns \in Nat \ {0, 1}, NEW k \in Nat, NEW ns, Steps(ns, k),
           NEW c \in 0..columns - 1, NEW d \in 0..columns - 1, c # d \/ columns = 8
    PROVE  /\ Steps(ns \cup {M!Tap(c, k)}, k + 1)
           /\ Steps(ns \cup {M!Tap(c, k)} \cup {M!Second(M!Tap(d, k))}, k + 1)
<1> DEFINE a == M!Tap(c, k)
           b == M!Second(M!Tap(d, k))
<1>1. /\ a \in ANote /\ a.lane = c /\ a.at = k /\ a.until = k /\ a.second = FALSE
      /\ M!Tap(d, k) \in ANote /\ M!Tap(d, k).lane = d /\ M!Tap(d, k).at = k /\ M!Tap(d, k).until = k
  BY DEF M!Tap, ANote
<1>2. b \in ANote /\ b.lane = d /\ b.at = k /\ b.until = k /\ b.second = TRUE
  BY <1>1, SecondsAre, Zenon
<1> HIDE DEF a, b
<1>3. /\ \A n \in ns : n \in ANote /\ n.lane \in 0..columns - 1 /\ n.at \in 0..k - 1 /\ n.until = n.at
      /\ \A n, m \in ns : n.at = m.at => (n.second = m.second => n = m) /\ (n.lane = m.lane => n = m \/ columns = 8)
  BY DEF Steps
<1>4. k \in 0..(k + 1) - 1 /\ \A i \in 0..k - 1 : i \in 0..(k + 1) - 1 /\ i # k
  OBVIOUS
<1>5. Steps(ns \cup {a}, k + 1)
  BY <1>1, <1>3, <1>4 DEF Steps
<1>6. Steps(ns \cup {a} \cup {b}, k + 1)
  BY <1>1, <1>2, <1>3, <1>4 DEF Steps
<1>7. QED
  BY <1>5, <1>6 DEF a, b

Walks(k) == {r \in ARun : r.ok /\ r.col \in M!Usable /\ Steps(r.notes, k)}
WalkStep(k, r) == M!Then(r, M!Available(r.col, M!Usable, {}, {r.col}, FALSE),
                         LAMBDA ns, c : ns \union {M!Tap(r.col, k - 1)})

LEMMA WalksStart ==
    ASSUME columns \in Nat \ {0, 1}, NEW c \in M!Usable
    PROVE  M!Run({}, c) \in Walks(0)
<1>1. c \in Int
  BY UsableIs
<1>2. Steps({}, 0)
  BY DEF Steps
<1>3. QED
  BY <1>1, <1>2 DEF Walks, M!Run, ARun

LEMMA WalksGoOn ==
    ASSUME columns \in Nat \ {0, 1}, NEW k \in Nat \ {0}, NEW r \in Walks(k - 1)
    PROVE  WalkStep(k, r) \in SUBSET Walks(k)
<1> DEFINE free == M!Available(r.col, M!Usable, {}, {r.col}, FALSE)
           W == r.notes \cup {M!Tap(r.col, k - 1)}
<1>1. SUFFICES ASSUME NEW q \in WalkStep(k, r) PROVE q \in Walks(k)
  OBVIOUS
<1>2. r \in ARun /\ r.ok /\ r.col \in M!Usable /\ Steps(r.notes, k - 1) /\ k - 1 \in Nat /\ (k - 1) + 1 = k
  BY DEF Walks
<1>3. free # {} /\ free \subseteq M!Usable
  <2> DEFINE nothing == {}
             no == FALSE
             here == {r.col}
  <2>1. (M!Usable \ nothing) \ here # {} /\ (M!Usable \ nothing) \ here \subseteq M!Usable
    <3>1. M!FirstColumn \in M!Usable /\ columns - 1 \in M!Usable /\ M!FirstColumn # columns - 1
      BY UsableIs
    <3>2. QED
      BY <3>1
  <2> HIDE DEF nothing, here, no
  <2>2. no \in BOOLEAN /\ (no => r.col \in M!Usable /\ M!Usable = M!Usable)
    BY DEF no
  <2>3. /\ M!Available(r.col, M!Usable, nothing, here, no) \subseteq (M!Usable \ nothing) \ here
        /\ (M!Usable \ nothing) \ here # {} => M!Available(r.col, M!Usable, nothing, here, no) # {}
    BY <2>2, AvailableIsOpen
  <2>4. QED
    BY <2>1, <2>3, Zenon DEF nothing, here, no
<1>4. Steps(W, k)
  <2>1. r.col \in 0..columns - 1
    BY <1>2, UsableIs
  <2>2. \E d \in 0..columns - 1 : r.col # d
    <3>1. 0 \in 0..columns - 1 /\ 1 \in 0..columns - 1
      OBVIOUS
    <3>2. QED
      BY <3>1
  <2>3. QED
    BY <1>2, <2>1, <2>2, StepsGoOn, Zenon
<1>5. W \in SUBSET ANote
  BY <1>4 DEF Steps
<1> HIDE DEF free, W
<1>6. PICK c \in free : q = Wrote(r, W, c)
  BY <1>1, <1>2, <1>3, Zenon DEF WalkStep, M!Then, Wrote, W, free
<1>7. c \in M!Usable /\ c \in Int
  BY <1>3, UsableIs
<1>8. q \in ARun /\ q.notes = W /\ q.col = c /\ q.ok
  BY <1>2, <1>5, <1>6, <1>7, Written
<1>9. QED
  BY <1>4, <1>7, <1>8 DEF Walks

(* A column is free beside those of the object before, unless it took all.  *)
LEMMA BesidePrev ==
    ASSUME LanesInv, M!Cardinality(prev) < columns, NEW start
    PROVE  LET free == M!Available(start, M!Usable, prev, {}, FALSE)
           IN  free # {} /\ free \subseteq M!Usable
<1>1. columns \in Nat \ {0, 1} /\ prev \in SUBSET (0..columns - 1) /\ (columns = 8 => ~(M!Usable \subseteq prev))
  BY DEF LanesInv
<1>2. M!Usable \ prev # {}
  <2>1. CASE columns = 8
    BY <1>1, <2>1
  <2>2. CASE columns # 8
    <3>1. IsFiniteSet(prev) /\ Cardinality(prev) < columns
      <4>1. IsFiniteSet(0..columns - 1)
        BY <1>1, FS_Interval
      <4>2. QED
        BY <1>1, <4>1, FS_Subset, CountsOfSets, Zenon
    <3> DEFINE a == 0
               b == columns - 1
    <3>2. a \in Int /\ b \in Int /\ a <= b /\ Cardinality(prev) < b - a + 1
      BY <1>1, <3>1, FS_CardinalityType
    <3>3. M!Usable = a .. b
      BY <1>1, <2>2 DEF M!Usable, M!FirstColumn
    <3> HIDE DEF a, b
    <3>4. QED
      BY <3>1, <3>2, <3>3, OneIsFree
  <2>3. QED
    BY <2>1, <2>2
<1> DEFINE nothing == {}
           no == FALSE
<1>3. (M!Usable \ prev) \ nothing = M!Usable \ prev /\ no \in BOOLEAN /\ ~no
  OBVIOUS
<1> HIDE DEF nothing, no
<1>4. /\ M!Available(start, M!Usable, prev, nothing, no) \subseteq (M!Usable \ prev) \ nothing
      /\ (M!Usable \ prev) \ nothing # {} => M!Available(start, M!Usable, prev, nothing, no) # {}
  BY <1>1, <1>3, AvailableIsOpen
<1>5. QED
  BY <1>2, <1>3, <1>4, Zenon DEF nothing, no

(* slider_gen_notes_no_stack.                                               *)
LEMMA NotesNoStackWalk ==
    ASSUME LanesInv, NEW h, h.x \in Nat, NEW count \in Nat, NEW apart
    PROVE  M!NotesNoStack(h, count, apart) \subseteq Walks(count)
<1> DEFINE n == count
           col == M!Column(h.x)
           start == IF apart /\ M!Cardinality(prev) < columns THEN M!Available(col, M!Usable, prev, {}, FALSE) ELSE {col}
           runs == IF start = {} THEN {[M!Run({}, col) EXCEPT !.ok = FALSE]} ELSE {M!Run({}, c) : c \in start}
           Rec(f) == f = [k \in 0..n |-> IF k = 0 THEN runs ELSE UNION {WalkStep(k, r) : r \in f[k - 1]}]
<1>1. M!NotesNoStack(h, count, apart) = (CHOOSE f : Rec(f))[n]
  BY Zenon DEF M!NotesNoStack, M!Times, WalkStep
<1>2. n \in Nat /\ columns \in Nat \ {0, 1}
  BY DEF LanesInv
<1>3. ASSUME NEW k \in 1..n, NEW r \in Walks(k - 1) PROVE WalkStep(k, r) \in SUBSET Walks(k)
  <2>1. k \in Nat \ {0}
    OBVIOUS
  <2>2. QED
    BY <1>2, <2>1, WalksGoOn
<1>4. runs \in SUBSET Walks(0)
  <2>1. start # {} /\ start \subseteq M!Usable
    <3>1. col \in M!Usable
      BY <1>2, ColumnIsUsable
    <3> HIDE DEF col
    <3>2. QED
      BY <3>1, BesidePrev, Zenon
  <2> HIDE DEF start
  <2>2. runs = {M!Run({}, c) : c \in start}
    BY <2>1
  <2>3. QED
    BY <1>2, <2>1, <2>2, WalksStart
<1> HIDE DEF runs, n
<1> DEFINE G == [k \in 0..n |-> Walks(k)]
           S == [k \in 1..n |-> [r \in Walks(k - 1) |-> WalkStep(k, r)]]
<1>5. PICK g : Unrolls(g, n, runs, S) /\ Within(g, n, G)
  <2>1. runs \in SUBSET G[0]
    BY <1>2, <1>4
  <2>2. \A k \in 1..n : \A r \in G[k - 1] : S[k][r] \in SUBSET G[k]
    BY <1>2, <1>3
  <2> HIDE DEF G, S
  <2>3. n \in Nat
    BY <1>2
  <2>4. Leads(n, runs, S, G)
    BY <2>1, <2>2, Zenon DEF Leads
  <2>5. QED
    BY <2>3, <2>4, Unfolds, Zenon
<1>6. Rec(g)
  <2>1. ASSUME NEW k \in 1..n PROVE {S[k][r] : r \in g[k - 1]} = {WalkStep(k, r) : r \in g[k - 1]}
    <3>1. k - 1 \in 0..n
      BY <1>2
    <3>2. g[k - 1] \in SUBSET Walks(k - 1)
      BY <1>5, <3>1 DEF Within
    <3>3. QED
      BY <3>2, Zenon
  <2> HIDE DEF S, G
  <2>2. ASSUME NEW k \in 0..n PROVE g[k] = IF k = 0 THEN runs ELSE UNION {WalkStep(k, r) : r \in g[k - 1]}
    <3>1. g[k] = IF k = 0 THEN runs ELSE UNION {S[k][r] : r \in g[k - 1]}
      BY <1>5, Zenon DEF Unrolls
    <3>2. CASE k = 0
      BY <3>1, <3>2
    <3>3. CASE k # 0
      <4>1. k \in 1..n
        BY <1>2, <3>3
      <4>2. QED
        BY <2>1, <3>1, <3>3, <4>1, Zenon
    <3>4. QED
      BY <3>2, <3>3
  <2>3. g = [k \in 0..n |-> g[k]]
    BY <1>5, Zenon DEF Unrolls
  <2>4. QED
    BY <2>2, <2>3, Zenon
<1> DEFINE f == CHOOSE h_ : Rec(h_)
           T == {k \in 0..n : f[k] \in SUBSET Walks(k)}
<1>7. Rec(f)
  BY <1>6, Zenon
<1> HIDE DEF f
<1>8. \A k \in 0..n : k \in T
  <2>1. 0 \in T
    BY <1>2, <1>4, <1>7
  <2>2. ASSUME NEW k \in 1..n, k - 1 \in T PROVE k \in T
    <3>1. k \in 0..n /\ k - 1 \in 0..n /\ k # 0 /\ f[k - 1] \in SUBSET Walks(k - 1)
      BY <1>2, <2>2
    <3>2. f[k] = UNION {WalkStep(k, r) : r \in f[k - 1]}
      BY <1>7, <3>1
    <3>3. ASSUME NEW x \in f[k] PROVE x \in Walks(k)
      <4>1. PICK r \in f[k - 1] : x \in WalkStep(k, r)
        BY <3>2, <3>3
      <4>2. QED
        BY <1>3, <3>1, <4>1
    <3>4. QED
      BY <3>1, <3>3
  <2> HIDE DEF T
  <2>3. QED
    BY <1>2, <2>1, <2>2, UpTo
<1>9. f[n] \subseteq Walks(n)
  BY <1>2, <1>8
<1>10. QED
  BY <1>1, <1>9, Zenon DEF f, n

(* slider_gen_stair.                                                        *)
LEMMA StairsAreFine ==
    ASSUME columns \in Nat \ {0, 1}, NEW h, h.x \in Nat, h.spans \in Nat, NEW r \in M!Stair(h)
    PROVE  r \in ARun /\ r.ok /\ Steps(r.notes, h.spans + 1)
<1> DEFINE n == h.spans
           D == [up : BOOLEAN, col : M!Usable]
           a(up) == [up |-> up, col |-> M!Column(h.x)]
           Rec(up, f) == f = [i \in 0..n |-> IF i = 0 THEN a(up) ELSE M!StairStep(f[i - 1])]
           at(up) == CHOOSE f : Rec(up, f)
<1>1. PICK up \in BOOLEAN : r = M!Run({M!Tap(at(up)[i].col, i) : i \in 0..n}, 0)
  BY Zenon DEF M!Stair
<1>2. a(up) \in D
  BY ColumnIsUsable
<1>3. \A x \in D : M!StairStep(x) \in D
  <2>1. SUFFICES ASSUME NEW x \in D PROVE M!StairStep(x) \in D
    OBVIOUS
  <2>2. /\ x.col \in M!FirstColumn..columns - 1 /\ M!FirstColumn \in 0..1 /\ columns - M!FirstColumn >= 2
        /\ M!Usable = M!FirstColumn..columns - 1
    BY UsableIs
  <2>3. CASE x.up /\ x.col >= columns - 1
    <3>1. M!StairStep(x) = [up |-> FALSE, col |-> x.col - 1]
      BY <2>3 DEF M!StairStep
    <3>2. QED
      BY <2>2, <2>3, <3>1
  <2>4. CASE x.up /\ ~(x.col >= columns - 1)
    <3>1. M!StairStep(x) = [x EXCEPT !.col = @ + 1]
      BY <2>4 DEF M!StairStep
    <3>2. QED
      BY <2>2, <2>4, <3>1
  <2>5. CASE ~x.up /\ x.col <= M!FirstColumn
    <3>1. M!StairStep(x) = [up |-> TRUE, col |-> x.col + 1]
      BY <2>5 DEF M!StairStep
    <3>2. QED
      BY <2>2, <2>5, <3>1
  <2>6. CASE ~x.up /\ ~(x.col <= M!FirstColumn)
    <3>1. M!StairStep(x) = [x EXCEPT !.col = @ - 1]
      BY <2>6 DEF M!StairStep
    <3>2. QED
      BY <2>2, <2>6, <3>1
  <2>7. QED
    BY <2>3, <2>4, <2>5, <2>6
<1>4. n \in Nat
  OBVIOUS
<1> HIDE DEF n, D, a
<1>5. \E f : Rec(up, f)
  <2> DEFINE F == [k \in 1..n |-> [x \in D |-> M!StairStep(x)]]
  <2>1. F \in [1..n -> [D -> D]]
    BY <1>3
  <2> HIDE DEF F
  <2>2. PICK g \in [0..n -> D] : g[0] = a(up) /\ \A k \in 1..n : g[k] = F[k][g[k - 1]]
    <3>1. Iterations(D, a(up), n, F) # {}
      BY <1>2, <1>4, <2>1, Recursion
    <3>2. QED
      BY <3>1 DEF Iterations
  <2>3. ASSUME NEW i \in 0..n PROVE g[i] = IF i = 0 THEN a(up) ELSE M!StairStep(g[i - 1])
    <3>1. CASE i = 0
      BY <2>2, <3>1
    <3>2. CASE i # 0
      <4>1. i \in 1..n /\ i - 1 \in 0..n
        BY <1>4, <3>2
      <4>2. g[i - 1] \in D
        BY <2>2, <4>1
      <4>3. g[i] = F[i][g[i - 1]]
        BY <2>2, <4>1
      <4>4. g[i] = M!StairStep(g[i - 1])
        BY <4>1, <4>2, <4>3 DEF F
      <4>5. QED
        BY <3>2, <4>4
    <3>3. QED
      BY <3>1, <3>2
  <2>4. Rec(up, g)
    BY <2>2, <2>3
  <2>5. QED
    BY <2>4, Zenon
<1> DEFINE f == at(up)
<1>6. Rec(up, f)
  BY <1>5, Zenon
<1> HIDE DEF at
<1> DEFINE T == {k \in 0..n : f[k] \in D}
<1>7. \A k \in 0..n : k \in T
  <2>1. 0 \in T
    BY <1>2, <1>4, <1>6
  <2>2. ASSUME NEW k \in 1..n, k - 1 \in T PROVE k \in T
    <3>1. k \in 0..n /\ k - 1 \in 0..n /\ k # 0 /\ f[k - 1] \in D
      BY <1>4, <2>2
    <3>2. f[k] = M!StairStep(f[k - 1])
      BY <1>6, <3>1
    <3>3. QED
      BY <1>3, <3>1, <3>2
  <2> HIDE DEF T
  <2>3. QED
    BY <1>4, <2>1, <2>2, UpTo
<1> DEFINE tap(i) == M!Tap(f[i].col, i)
           W == {tap(i) : i \in 0..n}
<1>8. ASSUME NEW i \in 0..n PROVE /\ tap(i) \in ANote /\ tap(i).lane \in 0..columns - 1 /\ tap(i).at = i
                                   /\ tap(i).until = i
  <2>1. f[i] \in D
    BY <1>7
  <2>2. f[i].col \in M!Usable
    BY <2>1 DEF D
  <2>3. f[i].col \in 0..columns - 1
    BY <2>2, UsableIs
  <2> DEFINE c == f[i].col
  <2> HIDE DEF f
  <2>4. c \in Int /\ i \in Int
    BY <2>3
  <2> HIDE DEF c
  <2>5. M!Tap(c, i) \in ANote /\ M!Tap(c, i).lane = c /\ M!Tap(c, i).at = i /\ M!Tap(c, i).until = i
    BY <2>4 DEF M!Tap, ANote
  <2>6. QED
    BY <2>3, <2>5 DEF c
<1> HIDE DEF tap, f
<1>9. \A w \in W : \E i \in 0..n : w = tap(i)
  OBVIOUS
<1> HIDE DEF W
<1>10. Steps(W, n + 1)
  <2>1. W \in SUBSET ANote
    BY <1>8, <1>9
  <2>2. \A w \in W : w.lane \in 0..columns - 1 /\ w.at \in 0..(n + 1) - 1 /\ w.until = w.at /\ w = tap(w.at)
    BY <1>4, <1>8, <1>9
  <2>3. QED
    BY <2>1, <2>2 DEF Steps
<1>11. r = M!Run(W, 0)
  BY <1>1 DEF W, tap, f
<1>12. r \in ARun /\ r.ok /\ r.notes = W
  BY <1>10, <1>11 DEF M!Run, ARun, Steps
<1>13. QED
  BY <1>10, <1>12 DEF n

(* slider_gen_random_multiple.                                              *)
Turned(r, W, c) == [r EXCEPT !.col = c, !.notes = W]
LEMMA TurnedIs ==
    ASSUME NEW r \in ARun, NEW W \in SUBSET ANote, NEW c \in Int
    PROVE  Turned(r, W, c) \in ARun /\ Turned(r, W, c).notes = W /\ Turned(r, W, c).col = c /\ Turned(r, W, c).ok = r.ok
BY Zenon DEF ARun, Turned

Legacy == IF columns \in 4 .. 8 THEN 1 ELSE 0
Beside(c, interval) == M!FirstColumn + (IF c + interval >= columns - M!FirstColumn
                                        THEN c + interval - columns + Legacy ELSE c + interval)
LEMMA BesideIs ==
    ASSUME columns \in Nat, columns > 2, NEW i \in 1 .. columns - Legacy - 1, NEW c \in M!Usable
    PROVE  Beside(c, i) \in 0..columns - 1 /\ (Beside(c, i) # c \/ columns = 8)
<1>1. CASE columns = 8
  BY <1>1 DEF Legacy, Beside, M!Usable, M!FirstColumn
<1>2. CASE columns # 8
  <2>1. M!FirstColumn = 0 /\ c \in 0..columns - 1 /\ Legacy \in 0..1
    BY <1>2 DEF M!Usable, M!FirstColumn, Legacy
  <2>2. QED
    BY <2>1 DEF Beside
<1>3. QED
  BY <1>1, <1>2

MultipleStep(i, k, r) ==
    {[r EXCEPT !.col = c,
               !.notes = @ \union {M!Tap(r.col, k - 1)} \union
                   (IF columns > 2 THEN {M!Second(M!Tap(Beside(r.col, i), k - 1))} ELSE {})] : c \in M!Usable}

LEMMA MultiplesGoOn ==
    ASSUME columns \in Nat \ {0, 1}, NEW i, columns > 2 => i \in 1 .. columns - Legacy - 1,
           NEW k \in Nat \ {0}, NEW r \in Walks(k - 1)
    PROVE  MultipleStep(i, k, r) \in SUBSET Walks(k)
<1> DEFINE more == IF columns > 2 THEN {M!Second(M!Tap(Beside(r.col, i), k - 1))} ELSE {}
           W == r.notes \cup {M!Tap(r.col, k - 1)} \cup more
<1>1. SUFFICES ASSUME NEW q \in MultipleStep(i, k, r) PROVE q \in Walks(k)
  OBVIOUS
<1>2. r \in ARun /\ r.ok /\ r.col \in M!Usable /\ Steps(r.notes, k - 1) /\ k - 1 \in Nat /\ (k - 1) + 1 = k
  BY DEF Walks
<1>3. r.col \in 0..columns - 1
  BY <1>2, UsableIs
<1>4. Steps(W, k)
  <2>1. CASE columns > 2
    <3>1. Beside(r.col, i) \in 0..columns - 1 /\ (r.col # Beside(r.col, i) \/ columns = 8)
      BY <1>2, <2>1, BesideIs
    <3>2. W = r.notes \cup {M!Tap(r.col, k - 1)} \cup {M!Second(M!Tap(Beside(r.col, i), k - 1))}
      BY <2>1
    <3> DEFINE a == r.col
               b == Beside(r.col, i)
               j == k - 1
               ns == r.notes
    <3>3. /\ a \in 0..columns - 1 /\ b \in 0..columns - 1 /\ (a # b \/ columns = 8) /\ Steps(ns, j)
          /\ j \in Nat /\ j + 1 = k
      BY <1>2, <1>3, <3>1
    <3>4. W = ns \cup {M!Tap(a, j)} \cup {M!Second(M!Tap(b, j))}
      BY <3>2
    <3> HIDE DEF W, a, b, j, ns
    <3>5. Steps(ns \cup {M!Tap(a, j)} \cup {M!Second(M!Tap(b, j))}, j + 1)
      BY <3>3, StepsGoOn, Zenon
    <3>6. QED
      BY <3>3, <3>4, <3>5
  <2>2. CASE ~(columns > 2)
    <3>1. W = r.notes \cup {M!Tap(r.col, k - 1)}
      BY <2>2
    <3>2. \E d \in 0..columns - 1 : r.col # d
      <4>1. 0 \in 0..columns - 1 /\ 1 \in 0..columns - 1
        OBVIOUS
      <4>2. QED
        BY <4>1
    <3> HIDE DEF W
    <3>3. QED
      BY <1>2, <1>3, <3>1, <3>2, StepsGoOn, Zenon
  <2>3. QED
    BY <2>1, <2>2
<1> HIDE DEF more
<1>5. PICK c \in M!Usable : q = Turned(r, W, c)
  BY <1>1, Zenon DEF MultipleStep, Turned, more
<1> HIDE DEF W
<1>6. c \in Int /\ W \in SUBSET ANote
  BY <1>4, UsableIs DEF Steps
<1>7. q \in ARun /\ q.notes = W /\ q.col = c /\ q.ok
  BY <1>2, <1>5, <1>6, TurnedIs
<1>8. QED
  BY <1>4, <1>7 DEF Walks

MultipleRuns(h, i) == M!Times(h.spans + 1, {M!Run({}, M!Column(h.x))}, LAMBDA k, r : MultipleStep(i, k, r))

LEMMA MultiplesWalk ==
    ASSUME columns \in Nat \ {0, 1}, NEW h, h.x \in Nat, h.spans \in Nat,
           NEW i, columns > 2 => i \in 1 .. columns - Legacy - 1
    PROVE  MultipleRuns(h, i) \subseteq Walks(h.spans + 1)
<1> DEFINE n == h.spans + 1
           runs == {M!Run({}, M!Column(h.x))}
           Rec(f) == f = [k \in 0..n |-> IF k = 0 THEN runs ELSE UNION {MultipleStep(i, k, r) : r \in f[k - 1]}]
<1>1. MultipleRuns(h, i) = (CHOOSE f : Rec(f))[n]
  BY Zenon DEF MultipleRuns, M!Times
<1>2. n \in Nat
  OBVIOUS
<1>3. ASSUME NEW k \in 1..n, NEW r \in Walks(k - 1) PROVE MultipleStep(i, k, r) \in SUBSET Walks(k)
  <2>1. k \in Nat \ {0}
    BY <1>2
  <2>2. QED
    BY <2>1, MultiplesGoOn, Zenon
<1>4. runs \in SUBSET Walks(0)
  BY ColumnIsUsable, WalksStart
<1> HIDE DEF runs, n
<1> DEFINE G == [k \in 0..n |-> Walks(k)]
           S == [k \in 1..n |-> [r \in Walks(k - 1) |-> MultipleStep(i, k, r)]]
<1>5. PICK g : Unrolls(g, n, runs, S) /\ Within(g, n, G)
  <2>1. runs \in SUBSET G[0]
    BY <1>2, <1>4
  <2>2. \A k \in 1..n : \A r \in G[k - 1] : S[k][r] \in SUBSET G[k]
    BY <1>2, <1>3
  <2> HIDE DEF G, S
  <2>3. n \in Nat
    BY <1>2
  <2>4. Leads(n, runs, S, G)
    BY <2>1, <2>2, Zenon DEF Leads
  <2>5. QED
    BY <2>3, <2>4, Unfolds, Zenon
<1>6. Rec(g)
  <2>1. ASSUME NEW k \in 1..n PROVE {S[k][r] : r \in g[k - 1]} = {MultipleStep(i, k, r) : r \in g[k - 1]}
    <3>1. k - 1 \in 0..n
      BY <1>2
    <3>2. g[k - 1] \in SUBSET Walks(k - 1)
      BY <1>5, <3>1 DEF Within
    <3>3. QED
      BY <3>2, Zenon
  <2> HIDE DEF S, G
  <2>2. ASSUME NEW k \in 0..n PROVE g[k] = IF k = 0 THEN runs ELSE UNION {MultipleStep(i, k, r) : r \in g[k - 1]}
    <3>1. g[k] = IF k = 0 THEN runs ELSE UNION {S[k][r] : r \in g[k - 1]}
      BY <1>5, Zenon DEF Unrolls
    <3>2. CASE k = 0
      BY <3>1, <3>2
    <3>3. CASE k # 0
      <4>1. k \in 1..n
        BY <1>2, <3>3
      <4>2. QED
        BY <2>1, <3>1, <3>3, <4>1, Zenon
    <3>4. QED
      BY <3>2, <3>3
  <2>3. g = [k \in 0..n |-> g[k]]
    BY <1>5, Zenon DEF Unrolls
  <2>4. QED
    BY <2>2, <2>3, Zenon
<1> DEFINE f == CHOOSE h_ : Rec(h_)
           T == {k \in 0..n : f[k] \in SUBSET Walks(k)}
<1>7. Rec(f)
  BY <1>6, Zenon
<1> HIDE DEF f
<1>8. \A k \in 0..n : k \in T
  <2>1. 0 \in T
    BY <1>2, <1>4, <1>7
  <2>2. ASSUME NEW k \in 1..n, k - 1 \in T PROVE k \in T
    <3>1. k \in 0..n /\ k - 1 \in 0..n /\ k # 0 /\ f[k - 1] \in SUBSET Walks(k - 1)
      BY <1>2, <2>2
    <3>2. f[k] = UNION {MultipleStep(i, k, r) : r \in f[k - 1]}
      BY <1>7, <3>1
    <3>3. ASSUME NEW x \in f[k] PROVE x \in Walks(k)
      <4>1. PICK r \in f[k - 1] : x \in MultipleStep(i, k, r)
        BY <3>2, <3>3
      <4>2. QED
        BY <1>3, <3>1, <4>1
    <3>4. QED
      BY <3>1, <3>3
  <2> HIDE DEF T
  <2>3. QED
    BY <1>2, <2>1, <2>2, UpTo
<1>9. f[n] \subseteq Walks(n)
  BY <1>2, <1>8
<1>10. QED
  BY <1>1, <1>9, Zenon DEF f, n

(* Holds side by side.                                                      *)
HoldStep(spans, from, taken, r) == M!Then(r, M!Available(r.col, M!Usable, taken, {}, FALSE),
                                          LAMBDA ns, c : M!Hold(spans, from, ns, c))

LEMMA HoldsGoOn ==
    ASSUME columns \in Nat \ {0, 1}, NEW k \in Nat \ {0}, NEW r \in Spread(k - 1), NEW P \in SUBSET (0..columns - 1),
           (k - 1) + Cardinality(P) < columns - M!FirstColumn,
           NEW taken, taken = M!Lanes(r.notes) \cup P, NEW spans \in Int, NEW from \in Int
    PROVE  HoldStep(spans, from, taken, r) \in SUBSET Spread(k)
<1> DEFINE no == FALSE
           free == M!Available(r.col, M!Usable, M!Lanes(r.notes) \cup P, {}, no)
           note(c) == [lane |-> c, at |-> from, until |-> spans, second |-> FALSE]
<1>1. SUFFICES ASSUME NEW q \in HoldStep(spans, from, taken, r) PROVE q \in Spread(k)
  BY Zenon
<1>2. k - 1 \in Nat /\ (k - 1) + 1 = k /\ r.ok
  BY DEF Spread
<1>3. free # {} /\ free \subseteq M!Usable \ M!Lanes(r.notes)
  <2>1. no \in BOOLEAN
    OBVIOUS
  <2> HIDE DEF no
  <2>2. QED
    BY <1>2, <2>1, DrawFindsOne, Zenon
<1>4. free = M!Available(r.col, M!Usable, taken, {}, FALSE)
  OBVIOUS
<1>5. \A c \in Int : note(c) \in ANote /\ note(c).lane = c
  BY DEF ANote
<1> HIDE DEF free
<1>6. PICK c \in free : q = Wrote(r, r.notes \cup {note(c)}, c)
  BY <1>1, <1>2, <1>3, <1>4, Zenon DEF HoldStep, M!Then, M!Hold, Wrote
<1> HIDE DEF note
<1>7. c \in M!Usable \ M!Lanes(r.notes) /\ c \in Int
  BY <1>3, UsableIs
<1>8. QED
  BY <1>2, <1>5, <1>6, <1>7, SpreadsOn

(* slider_gen_holds.                                                        *)
LEMMA HoldsSpread ==
    ASSUME LanesInv, NEW h, h.spans \in Nat, NEW wanted \in Nat
    PROVE  \E n \in Nat : n <= wanted /\ M!Holds(h, wanted) \subseteq Spread(n)
<1> DEFINE w == columns - M!FirstColumn
           n == M!Least(wanted, w)
           apart == M!Least(w - M!Cardinality(prev), n)
           P(k) == IF k <= apart THEN prev ELSE {}
           St(k, r) == HoldStep(h.spans, 0, M!Lanes(r.notes) \union P(k), r)
           runs == {M!Run({}, c) : c \in M!Usable}
           Rec(f) == f = [k \in 0..n |-> IF k = 0 THEN runs ELSE UNION {St(k, r) : r \in f[k - 1]}]
<1>1. M!Holds(h, wanted) = (CHOOSE f : Rec(f))[n]
  BY Zenon DEF M!Holds, M!Times, HoldStep
<1>2. n \in Nat /\ n <= wanted /\ n <= w /\ w \in Nat /\ columns \in Nat \ {0, 1} /\ prev \in SUBSET (0..columns - 1)
  <2>1. columns \in Nat \ {0, 1} /\ prev \in SUBSET (0..columns - 1) /\ w \in Nat
    BY UsableIs DEF LanesInv
  <2> HIDE DEF w
  <2>2. wanted \in Int /\ w \in Int
    BY <2>1
  <2>3. n = IF wanted <= w THEN wanted ELSE w
    BY <2>2, OfTwo, Zenon
  <2> HIDE DEF n
  <2>4. QED
    BY <2>1, <2>3
<1>3. apart \in Int /\ apart + Cardinality(prev) <= w
  <2> DEFINE c == Cardinality(prev)
             room == w - c
  <2>1. c \in Nat
    <3>1. IsFiniteSet(0..columns - 1)
      BY <1>2, FS_Interval
    <3>2. QED
      BY <1>2, <3>1, FS_Subset, FS_CardinalityType, Zenon
  <2>2. room \in Int /\ apart = M!Least(room, n)
    <3>1. w - M!Cardinality(prev) = room
      BY CountsOfSets
    <3>2. room \in Int
      BY <1>2, <2>1
    <3> HIDE DEF room, n, w
    <3>3. QED
      BY <3>1, <3>2
  <2> HIDE DEF room, apart, n
  <2>3. apart \in Int /\ apart <= room
    <3>1. room \in Int /\ n \in Int
      BY <1>2, <2>2
    <3>2. apart = IF room <= n THEN room ELSE n
      BY <2>2, <3>1, OfTwo, Zenon
    <3>3. QED
      BY <3>1, <3>2
  <2> USE DEF room
  <2> HIDE DEF c, w
  <2>4. apart + c <= w
    BY <1>2, <2>1, <2>3
  <2>5. QED
    BY <2>3, <2>4 DEF c
<1> HIDE DEF n, apart, w
<1>4. ASSUME NEW k \in 1..n, NEW r \in Spread(k - 1) PROVE St(k, r) \in SUBSET Spread(k)
  <2>1. P(k) \in SUBSET (0..columns - 1)
    BY <1>2
  <2>2. (k - 1) + Cardinality(P(k)) < w
    <3>1. Cardinality(prev) \in Nat
      <4>1. IsFiniteSet(0..columns - 1)
        BY <1>2, FS_Interval
      <4>2. QED
        BY <1>2, <4>1, FS_Subset, FS_CardinalityType, Zenon
    <3>2. CASE k <= apart
      BY <1>2, <1>3, <3>1, <3>2
    <3>3. CASE ~(k <= apart)
      BY <1>2, <3>3, FS_EmptySet
    <3>4. QED
      BY <3>2, <3>3
  <2> DEFINE p == P(k)
             taken == M!Lanes(r.notes) \union p
             z == 0
             spans == h.spans
  <2>3. /\ k \in Nat \ {0} /\ spans \in Int /\ z \in Int /\ taken = M!Lanes(r.notes) \cup p
        /\ p \in SUBSET (0..columns - 1) /\ (k - 1) + Cardinality(p) < columns - M!FirstColumn
    BY <1>2, <2>1, <2>2 DEF w
  <2>4. St(k, r) = HoldStep(spans, z, taken, r)
    OBVIOUS
  <2> HIDE DEF p, taken, z, spans, St
  <2>5. HoldStep(spans, z, taken, r) \in SUBSET Spread(k)
    BY <1>2, <2>3, HoldsGoOn
  <2>6. QED
    BY <2>4, <2>5
<1> HIDE DEF St
<1>5. runs \in SUBSET Spread(0)
  BY <1>2, SpreadsFromNothing
<1> HIDE DEF runs
<1> DEFINE G == [k \in 0..n |-> Spread(k)]
           S == [k \in 1..n |-> [r \in Spread(k - 1) |-> St(k, r)]]
<1>6. PICK g : Unrolls(g, n, runs, S) /\ Within(g, n, G)
  <2>1. runs \in SUBSET G[0]
    BY <1>2, <1>5
  <2>2. \A k \in 1..n : \A r \in G[k - 1] : S[k][r] \in SUBSET G[k]
    BY <1>2, <1>4
  <2> HIDE DEF G, S
  <2>3. n \in Nat
    BY <1>2
  <2>4. Leads(n, runs, S, G)
    BY <2>1, <2>2, Zenon DEF Leads
  <2>5. QED
    BY <2>3, <2>4, Unfolds, Zenon
<1>7. Rec(g)
  <2>1. ASSUME NEW k \in 1..n PROVE {S[k][r] : r \in g[k - 1]} = {St(k, r) : r \in g[k - 1]}
    <3>1. k - 1 \in 0..n
      BY <1>2
    <3>2. g[k - 1] \in SUBSET Spread(k - 1)
      BY <1>6, <3>1 DEF Within
    <3>3. QED
      BY <3>2, Zenon
  <2> HIDE DEF S, G
  <2>2. ASSUME NEW k \in 0..n PROVE g[k] = IF k = 0 THEN runs ELSE UNION {St(k, r) : r \in g[k - 1]}
    <3>1. g[k] = IF k = 0 THEN runs ELSE UNION {S[k][r] : r \in g[k - 1]}
      BY <1>6, Zenon DEF Unrolls
    <3>2. CASE k = 0
      BY <3>1, <3>2
    <3>3. CASE k # 0
      <4>1. k \in 1..n
        BY <1>2, <3>3
      <4>2. QED
        BY <2>1, <3>1, <3>3, <4>1, Zenon
    <3>4. QED
      BY <3>2, <3>3
  <2>3. g = [k \in 0..n |-> g[k]]
    BY <1>6, Zenon DEF Unrolls
  <2>4. QED
    BY <2>2, <2>3, Zenon
<1> DEFINE f == CHOOSE h_ : Rec(h_)
           T == {k \in 0..n : f[k] \in SUBSET Spread(k)}
<1>8. Rec(f)
  BY <1>7, Zenon
<1> HIDE DEF f
<1>9. \A k \in 0..n : k \in T
  <2>1. 0 \in T
    BY <1>2, <1>5, <1>8
  <2>2. ASSUME NEW k \in 1..n, k - 1 \in T PROVE k \in T
    <3>1. k \in 0..n /\ k - 1 \in 0..n /\ k # 0 /\ f[k - 1] \in SUBSET Spread(k - 1)
      BY <1>2, <2>2
    <3>2. f[k] = UNION {St(k, r) : r \in f[k - 1]}
      BY <1>8, <3>1
    <3>3. ASSUME NEW x \in f[k] PROVE x \in Spread(k)
      <4>1. PICK r \in f[k - 1] : x \in St(k, r)
        BY <3>2, <3>3
      <4>2. QED
        BY <1>4, <3>1, <4>1
    <3>4. QED
      BY <3>1, <3>3
  <2> HIDE DEF T
  <2>3. QED
    BY <1>2, <2>1, <2>2, UpTo
<1>10. f[n] \subseteq Spread(n)
  BY <1>2, <1>9
<1>11. QED
  BY <1>1, <1>2, <1>10, Zenon DEF f

(* slider_gen_tiled_holds.                                                  *)
LEMMA TiledHoldsSpread ==
    ASSUME columns \in Nat \ {0, 1}, NEW h, h.x \in Nat, h.spans \in Nat, h.spans < columns - 1 - M!FirstColumn
    PROVE  M!TiledHolds(h) \subseteq Spread(h.spans)
<1> DEFINE spans == h.spans
           n == M!Least(spans, columns)
           St(k, r) == HoldStep(spans, k - 1, M!Lanes(r.notes), r)
           runs == {M!Run({}, M!Column(h.x))}
           Rec(f) == f = [k \in 0..n |-> IF k = 0 THEN runs ELSE UNION {St(k, r) : r \in f[k - 1]}]
<1>1. M!TiledHolds(h) = (CHOOSE f : Rec(f))[n]
  BY Zenon DEF M!TiledHolds, M!Times, HoldStep
<1>2. spans \in Nat /\ n = spans /\ n < columns - M!FirstColumn /\ columns \in Nat \ {0, 1}
  <2>1. spans \in Nat /\ spans < columns - 1 - M!FirstColumn /\ M!FirstColumn \in 0..1
    BY UsableIs
  <2> HIDE DEF spans
  <2>2. spans \in Int /\ columns \in Int
    BY <2>1
  <2>3. n = IF spans <= columns THEN spans ELSE columns
    BY <2>2, OfTwo, Zenon
  <2> HIDE DEF n
  <2>4. QED
    BY <2>1, <2>3
<1> HIDE DEF n, spans
<1>3. ASSUME NEW k \in 1..n, NEW r \in Spread(k - 1) PROVE St(k, r) \in SUBSET Spread(k)
  <2> DEFINE p == {}
             taken == M!Lanes(r.notes)
             z == k - 1
  <2>1. /\ k \in Nat \ {0} /\ spans \in Int /\ z \in Int /\ taken = M!Lanes(r.notes) \cup p
        /\ p \in SUBSET (0..columns - 1) /\ (k - 1) + Cardinality(p) < columns - M!FirstColumn
    BY <1>2, FS_EmptySet, UsableIs
  <2>2. St(k, r) = HoldStep(spans, z, taken, r)
    OBVIOUS
  <2> HIDE DEF p, taken, z, St
  <2>3. HoldStep(spans, z, taken, r) \in SUBSET Spread(k)
    BY <1>2, <2>1, HoldsGoOn
  <2>4. QED
    BY <2>2, <2>3
<1> HIDE DEF St
<1>4. runs \in SUBSET Spread(0)
  BY SpreadsFromNothing, ColumnIsUsable
<1> HIDE DEF runs
<1> DEFINE G == [k \in 0..n |-> Spread(k)]
           S == [k \in 1..n |-> [r \in Spread(k - 1) |-> St(k, r)]]
<1>5. PICK g : Unrolls(g, n, runs, S) /\ Within(g, n, G)
  <2>1. runs \in SUBSET G[0]
    BY <1>2, <1>4
  <2>2. \A k \in 1..n : \A r \in G[k - 1] : S[k][r] \in SUBSET G[k]
    BY <1>2, <1>3
  <2> HIDE DEF G, S
  <2>3. n \in Nat
    BY <1>2
  <2>4. Leads(n, runs, S, G)
    BY <2>1, <2>2, Zenon DEF Leads
  <2>5. QED
    BY <2>3, <2>4, Unfolds, Zenon
<1>6. Rec(g)
  <2>1. ASSUME NEW k \in 1..n PROVE {S[k][r] : r \in g[k - 1]} = {St(k, r) : r \in g[k - 1]}
    <3>1. k - 1 \in 0..n
      BY <1>2
    <3>2. g[k - 1] \in SUBSET Spread(k - 1)
      BY <1>5, <3>1 DEF Within
    <3>3. QED
      BY <3>2, Zenon
  <2> HIDE DEF S, G
  <2>2. ASSUME NEW k \in 0..n PROVE g[k] = IF k = 0 THEN runs ELSE UNION {St(k, r) : r \in g[k - 1]}
    <3>1. g[k] = IF k = 0 THEN runs ELSE UNION {S[k][r] : r \in g[k - 1]}
      BY <1>5, Zenon DEF Unrolls
    <3>2. CASE k = 0
      BY <3>1, <3>2
    <3>3. CASE k # 0
      <4>1. k \in 1..n
        BY <1>2, <3>3
      <4>2. QED
        BY <2>1, <3>1, <3>3, <4>1, Zenon
    <3>4. QED
      BY <3>2, <3>3
  <2>3. g = [k \in 0..n |-> g[k]]
    BY <1>5, Zenon DEF Unrolls
  <2>4. QED
    BY <2>2, <2>3, Zenon
<1> DEFINE f == CHOOSE h_ : Rec(h_)
           T == {k \in 0..n : f[k] \in SUBSET Spread(k)}
<1>7. Rec(f)
  BY <1>6, Zenon
<1> HIDE DEF f
<1>8. \A k \in 0..n : k \in T
  <2>1. 0 \in T
    BY <1>2, <1>4, <1>7
  <2>2. ASSUME NEW k \in 1..n, k - 1 \in T PROVE k \in T
    <3>1. k \in 0..n /\ k - 1 \in 0..n /\ k # 0 /\ f[k - 1] \in SUBSET Spread(k - 1)
      BY <1>2, <2>2
    <3>2. f[k] = UNION {St(k, r) : r \in f[k - 1]}
      BY <1>7, <3>1
    <3>3. ASSUME NEW x \in f[k] PROVE x \in Spread(k)
      <4>1. PICK r \in f[k - 1] : x \in St(k, r)
        BY <3>2, <3>3
      <4>2. QED
        BY <1>3, <3>1, <4>1
    <3>4. QED
      BY <3>1, <3>3
  <2> HIDE DEF T
  <2>3. QED
    BY <1>2, <2>1, <2>2, UpTo
<1>9. f[n] \subseteq Spread(n)
  BY <1>2, <1>8
<1>10. QED
  BY <1>1, <1>2, <1>9, Zenon DEF f, spans

LEMMA SpreadsSlide ==
    ASSUME columns \in Nat \ {0, 1}, NEW k \in Nat, columns = 8 => k <= 6, NEW r \in Spread(k), NEW spans
    PROVE  Slid(r, spans)
<1>1. r \in ARun /\ r.ok /\ Playable(r.notes) /\ LeavesRoom(M!Lanes(r.notes))
  BY SpreadIsFine DEF Fine
<1>2. M!EndColumns(r.notes, spans) \subseteq M!Lanes(r.notes)
  BY DEF M!EndColumns, M!Lanes
<1>3. QED
  BY <1>1, <1>2 DEF Slid, LeavesRoom

(* A hold, and up to two taps beside it at each of its times: at time i, j   *)
(* have been drawn.                                                          *)
At(i, ns) == M!Lanes({n \in ns : n.at = i /\ n.until = i})
Held(ns, col, spans, i, j) ==
    /\ ns \in SUBSET ANote /\ IsFiniteSet(ns)
    /\ \A n \in ns : /\ n.second = FALSE
                     /\ \/ n.lane = col /\ n.at = 0 /\ n.until = spans
                        \/ n.lane \in M!Usable \ {col} /\ n.at \in 0..i /\ n.until = n.at
    /\ \A l \in Nat : IsFiniteSet(At(l, ns)) /\ Cardinality(At(l, ns)) <= (IF l = i THEN j ELSE 2)
InTime(col, spans, i, j) == {r \in ARun : r.ok /\ r.col \in M!Usable /\ Held(r.notes, col, spans, i, j)}

LEMMA HeldsAreFine ==
    ASSUME columns \in Nat \ {0, 1}, NEW col \in M!Usable, NEW spans \in Nat \ {0}, NEW i \in Nat,
           NEW r \in InTime(col, spans, i, 0)
    PROVE  Slid(r, spans)
<1> DEFINE ns == r.notes
<1>1. r \in ARun /\ r.ok /\ Held(ns, col, spans, i, 0)
  BY DEF InTime
<1>2. Playable(ns)
  <2>1. ASSUME NEW n \in ns PROVE n.lane \in 0..columns - 1
    BY <1>1, UsableIs DEF Held
  <2>2. ASSUME NEW n \in ns, NEW m \in ns, n # m, n.lane = m.lane
        PROVE  n.until < m.at \/ m.until < n.at
    <3>1. n \in ANote /\ m \in ANote /\ n.second = m.second
      BY <1>1, Zenon DEF Held
    <3>2. ~(n.at = m.at /\ n.until = m.until)
      BY <2>2, <3>1, SecondsAre, Zenon
    <3>3. n.until = n.at /\ m.until = m.at /\ n.at \in Int /\ m.at \in Int
      BY <1>1, <2>2, <3>1, <3>2 DEF Held, ANote
    <3>4. QED
      BY <3>2, <3>3
  <2>3. QED
    BY <2>1, <2>2 DEF Playable
<1>3. LeavesRoom(M!EndColumns(ns, spans))
  <2>1. CASE M!Cardinality(ns) = 1
    <3>1. Cardinality(ns) = 1 /\ IsFiniteSet(ns)
      BY <1>1, <2>1, CountsOfSets DEF Held
    <3>2. PICK n : ns = {n}
      BY <3>1, FS_Singleton, Zenon
    <3>3. M!EndColumns(ns, spans) = {n.lane}
      BY <2>1, <3>2 DEF M!EndColumns, M!Lanes
    <3>4. QED
      BY <3>3, OneLeavesRoom, Zenon
  <2>2. CASE M!Cardinality(ns) # 1
    <3> DEFINE A == At(spans, ns)
               B == A \cup {col}
    <3>1. M!EndColumns(ns, spans) \subseteq B
      <4>1. ASSUME NEW l \in M!EndColumns(ns, spans) PROVE l \in B
        <5>1. PICK n \in ns : n.until = spans /\ l = n.lane
          BY <2>2, <4>1 DEF M!EndColumns, M!Lanes
        <5>2. l = col \/ (n.at = spans /\ n.until = spans)
          BY <1>1, <5>1 DEF Held
        <5>3. QED
          BY <5>1, <5>2 DEF At, M!Lanes
      <4>2. QED
        BY <4>1
    <3>2. IsFiniteSet(A) /\ Cardinality(A) <= 2 /\ Cardinality(A) \in Nat
      <4>1. IsFiniteSet(A) /\ (Cardinality(A) <= 2 \/ Cardinality(A) <= 0)
        BY <1>1 DEF Held
      <4>2. IsFiniteSet(A)
        BY <1>1 DEF Held
      <4>3. Cardinality(A) \in Nat
        BY <4>2, FS_CardinalityType
      <4>4. QED
        BY <4>1, <4>2, <4>3
    <3> HIDE DEF A
    <3>3. IsFiniteSet(B) /\ Cardinality(B) <= 6
      <4>1. IsFiniteSet(B) /\ Cardinality(B) = IF col \in A THEN Cardinality(A) ELSE Cardinality(A) + 1
        BY <3>2, FS_AddElement, Zenon
      <4> HIDE DEF B
      <4>2. QED
        BY <3>2, <4>1
    <3>4. LeavesRoom(B)
      BY <3>3, FewLeaveRoom
    <3>5. QED
      BY <3>1, <3>4 DEF LeavesRoom
  <2>3. QED
    BY <2>1, <2>2
<1>4. QED
  BY <1>1, <1>2, <1>3 DEF Slid

TapStep(col, i, q) == M!Then(q, M!Available(q.col, M!Usable, At(i, q.notes), {col}, FALSE),
                             LAMBDA ns, c : ns \union {M!Tap(c, i)})

LEMMA TapsGoOn ==
    ASSUME columns \in Nat \ {0, 1}, NEW col \in M!Usable, NEW spans \in Nat \ {0}, NEW i \in Nat,
           NEW j \in Nat \ {0}, j < columns - M!FirstColumn, NEW r \in InTime(col, spans, i, j - 1)
    PROVE  TapStep(col, i, r) \in SUBSET InTime(col, spans, i, j)
<1> DEFINE no == FALSE
           A == At(i, r.notes)
           here == {col}
           free == M!Available(r.col, M!Usable, A, here, no)
<1>1. SUFFICES ASSUME NEW q \in TapStep(col, i, r) PROVE q \in InTime(col, spans, i, j)
  OBVIOUS
<1>2. r \in ARun /\ r.ok /\ r.col \in M!Usable /\ Held(r.notes, col, spans, i, j - 1)
  BY DEF InTime
<1>3. IsFiniteSet(A) /\ Cardinality(A) <= j - 1 /\ Cardinality(A) \in Nat
  <2>1. IsFiniteSet(A) /\ Cardinality(A) <= j - 1
    BY <1>2 DEF Held
  <2>2. QED
    BY <2>1, FS_CardinalityType
<1>4. no \in BOOLEAN /\ ~no
  OBVIOUS
<1> HIDE DEF A, no
<1>5. (M!Usable \ A) \ here # {}
  <2> DEFINE a == M!FirstColumn
             b == columns - 1
             B == A \cup here
  <2>1. IsFiniteSet(B) /\ Cardinality(B) <= j
    BY <1>3, FS_AddElement
  <2>2. Cardinality(B) \in Nat
    BY <2>1, FS_CardinalityType
  <2>3. a \in Int /\ b \in Int /\ a <= b /\ b - a + 1 = columns - M!FirstColumn /\ M!Usable = a .. b
    BY UsableIs
  <2> HIDE DEF B
  <2>4. Cardinality(B) < b - a + 1
    BY <2>1, <2>2, <2>3
  <2> HIDE DEF a, b
  <2>5. (a .. b) \ B # {}
    BY <2>1, <2>3, <2>4, OneIsFree
  <2>6. QED
    BY <2>3, <2>5 DEF B
<1> HIDE DEF here
<1>6. free # {} /\ free \subseteq (M!Usable \ A) \ here
  BY <1>4, <1>5, AvailableIsOpen
<1>7. free = M!Available(r.col, M!Usable, At(i, r.notes), {col}, FALSE)
  BY DEF A, here, no
<1> HIDE DEF free
<1>8. PICK c \in free : q = Wrote(r, r.notes \cup {M!Tap(c, i)}, c)
  BY <1>1, <1>2, <1>6, <1>7, Zenon DEF TapStep, M!Then, Wrote
<1>9. c \in (M!Usable \ A) \ {col} /\ c \in Int
  BY <1>6, UsableIs DEF here
<1> DEFINE t == M!Tap(c, i)
           W == r.notes \cup {t}
<1>10. t \in ANote /\ t.lane = c /\ t.at = i /\ t.until = i /\ t.second = FALSE
  BY <1>9 DEF M!Tap, ANote
<1> HIDE DEF t
<1>11. Held(W, col, spans, i, j)
  <2>1. W \in SUBSET ANote /\ IsFiniteSet(W)
    BY <1>2, <1>10, FS_AddElement, Zenon DEF Held
  <2>2. ASSUME NEW n \in W
        PROVE  /\ n.second = FALSE
               /\ \/ n.lane = col /\ n.at = 0 /\ n.until = spans
                  \/ n.lane \in M!Usable \ {col} /\ n.at \in 0..i /\ n.until = n.at
    BY <1>2, <1>9, <1>10 DEF Held
  <2>3. ASSUME NEW l \in Nat
        PROVE  IsFiniteSet(At(l, W)) /\ Cardinality(At(l, W)) <= (IF l = i THEN j ELSE 2)
    <3>1. CASE l = i
      <4>1. At(l, W) = A \cup {c}
        BY <1>10, <3>1 DEF At, A, M!Lanes
      <4>2. IsFiniteSet(A \cup {c}) /\ Cardinality(A \cup {c}) <= j
        <5> DEFINE B == A \cup {c}
        <5>1. IsFiniteSet(B) /\ Cardinality(B) = IF c \in A THEN Cardinality(A) ELSE Cardinality(A) + 1
          BY <1>3, FS_AddElement, Zenon
        <5> HIDE DEF B
        <5>2. IsFiniteSet(B) /\ Cardinality(B) <= j
          BY <1>3, <5>1
        <5>3. QED
          BY <5>2 DEF B
      <4>3. QED
        BY <3>1, <4>1, <4>2, Zenon
    <3>2. CASE l # i
      <4>1. At(l, W) = At(l, r.notes)
        BY <1>10, <3>2 DEF At, M!Lanes
      <4>2. QED
        BY <1>2, <3>2, <4>1 DEF Held
    <3>3. QED
      BY <3>1, <3>2
  <2> HIDE DEF W
  <2>4. QED
    BY <2>1, <2>2, <2>3, Zenon DEF Held
<1>12. W \in SUBSET ANote /\ q = Wrote(r, W, c)
  BY <1>8, <1>11 DEF Held, t
<1> HIDE DEF W
<1>13. q \in ARun /\ q.notes = W /\ q.col = c /\ q.ok
  BY <1>2, <1>9, <1>12, Written
<1>14. QED
  BY <1>9, <1>11, <1>13 DEF InTime

LEMMA TapsStay ==
    ASSUME columns \in Nat \ {0, 1}, NEW col, NEW spans \in Nat \ {0}, NEW k \in Nat \ {0}, NEW j \in Nat, j <= 2
    PROVE  InTime(col, spans, k - 1, j) \subseteq InTime(col, spans, k, 0)
<1> SUFFICES ASSUME NEW r \in InTime(col, spans, k - 1, j) PROVE Held(r.notes, col, spans, k, 0)
  BY DEF InTime
<1> DEFINE ns == r.notes
<1>1. Held(ns, col, spans, k - 1, j)
  BY DEF InTime
<1>2. ASSUME NEW n \in ns
      PROVE  /\ n.second = FALSE
             /\ \/ n.lane = col /\ n.at = 0 /\ n.until = spans
                \/ n.lane \in M!Usable \ {col} /\ n.at \in 0..k - 1 /\ n.until = n.at
  BY <1>1 DEF Held
<1>3. ASSUME NEW l \in Nat
      PROVE  IsFiniteSet(At(l, ns)) /\ Cardinality(At(l, ns)) <= (IF l = k THEN 0 ELSE 2)
  <2>1. CASE l = k
    <3>1. \A n \in ns : ~(n.at = k /\ n.until = k)
      <4>1. SUFFICES ASSUME NEW n \in ns, n.at = k PROVE FALSE
        OBVIOUS
      <4>2. n.at = 0 \/ n.at \in 0..k - 1
        BY <1>2, Zenon
      <4>3. QED
        BY <4>1, <4>2
    <3>2. At(l, ns) = {}
      BY <2>1, <3>1 DEF At, M!Lanes
    <3>3. QED
      BY <2>1, <3>2, FS_EmptySet
  <2>2. CASE l # k
    <3>1. IsFiniteSet(At(l, ns)) /\ (Cardinality(At(l, ns)) <= j \/ Cardinality(At(l, ns)) <= 2)
      BY <1>1 DEF Held
    <3>2. Cardinality(At(l, ns)) \in Nat
      BY <3>1, FS_CardinalityType
    <3>3. QED
      BY <2>2, <3>1, <3>2
  <2>3. QED
    BY <2>1, <2>2
<1>4. \A n \in 0..k - 1 : n \in 0..k
  OBVIOUS
<1>5. QED
  BY <1>1, <1>2, <1>3, <1>4 DEF Held

BesideRuns(col, n, i, s) == M!Times(n, {s}, LAMBDA k, r : TapStep(col, i, r))

LEMMA BesideInTime ==
    ASSUME columns \in Nat \ {0, 1}, NEW col \in M!Usable, NEW spans \in Nat \ {0}, NEW i \in Nat,
           NEW n \in Nat, n < columns - M!FirstColumn, NEW s \in InTime(col, spans, i, 0)
    PROVE  BesideRuns(col, n, i, s) \subseteq InTime(col, spans, i, n)
<1> DEFINE Time(j) == InTime(col, spans, i, j)
           runs == {s}
           Rec(f) == f = [k \in 0..n |-> IF k = 0 THEN runs ELSE UNION {TapStep(col, i, r) : r \in f[k - 1]}]
<1>1. BesideRuns(col, n, i, s) = (CHOOSE f : Rec(f))[n]
  BY Zenon DEF BesideRuns, M!Times
<1>2. n \in Nat
  OBVIOUS
<1>3. ASSUME NEW k \in 1..n, NEW r \in Time(k - 1) PROVE TapStep(col, i, r) \in SUBSET Time(k)
  <2>1. k \in Nat \ {0} /\ k < columns - M!FirstColumn
    BY UsableIs
  <2>2. QED
    BY <2>1, TapsGoOn
<1>4. runs \in SUBSET Time(0)
  OBVIOUS
<1> HIDE DEF runs, Time
<1> DEFINE G == [k \in 0..n |-> Time(k)]
           S == [k \in 1..n |-> [r \in Time(k - 1) |-> TapStep(col, i, r)]]
<1>5. PICK g : Unrolls(g, n, runs, S) /\ Within(g, n, G)
  <2>1. runs \in SUBSET G[0]
    BY <1>2, <1>4
  <2>2. \A k \in 1..n : \A r \in G[k - 1] : S[k][r] \in SUBSET G[k]
    BY <1>2, <1>3
  <2> HIDE DEF G, S
  <2>3. n \in Nat
    BY <1>2
  <2>4. Leads(n, runs, S, G)
    BY <2>1, <2>2, Zenon DEF Leads
  <2>5. QED
    BY <2>3, <2>4, Unfolds, Zenon
<1>6. Rec(g)
  <2>1. ASSUME NEW k \in 1..n PROVE {S[k][r] : r \in g[k - 1]} = {TapStep(col, i, r) : r \in g[k - 1]}
    <3>1. k - 1 \in 0..n
      BY <1>2
    <3>2. g[k - 1] \in SUBSET Time(k - 1)
      BY <1>5, <3>1 DEF Within
    <3>3. QED
      BY <3>2, Zenon
  <2> HIDE DEF S, G
  <2>2. ASSUME NEW k \in 0..n PROVE g[k] = IF k = 0 THEN runs ELSE UNION {TapStep(col, i, r) : r \in g[k - 1]}
    <3>1. g[k] = IF k = 0 THEN runs ELSE UNION {S[k][r] : r \in g[k - 1]}
      BY <1>5, Zenon DEF Unrolls
    <3>2. CASE k = 0
      BY <3>1, <3>2
    <3>3. CASE k # 0
      <4>1. k \in 1..n
        BY <1>2, <3>3
      <4>2. QED
        BY <2>1, <3>1, <3>3, <4>1, Zenon
    <3>4. QED
      BY <3>2, <3>3
  <2>3. g = [k \in 0..n |-> g[k]]
    BY <1>5, Zenon DEF Unrolls
  <2>4. QED
    BY <2>2, <2>3, Zenon
<1> DEFINE f == CHOOSE h_ : Rec(h_)
           T == {k \in 0..n : f[k] \in SUBSET Time(k)}
<1>7. Rec(f)
  BY <1>6, Zenon
<1> HIDE DEF f
<1>8. \A k \in 0..n : k \in T
  <2>1. 0 \in T
    BY <1>2, <1>4, <1>7
  <2>2. ASSUME NEW k \in 1..n, k - 1 \in T PROVE k \in T
    <3>1. k \in 0..n /\ k - 1 \in 0..n /\ k # 0 /\ f[k - 1] \in SUBSET Time(k - 1)
      BY <1>2, <2>2
    <3>2. f[k] = UNION {TapStep(col, i, r) : r \in f[k - 1]}
      BY <1>7, <3>1
    <3>3. ASSUME NEW x \in f[k] PROVE x \in Time(k)
      <4>1. PICK r \in f[k - 1] : x \in TapStep(col, i, r)
        BY <3>2, <3>3
      <4>2. QED
        BY <1>3, <3>1, <4>1
    <3>4. QED
      BY <3>1, <3>3
  <2> HIDE DEF T
  <2>3. QED
    BY <1>2, <2>1, <2>2, UpTo
<1>9. f[n] \subseteq Time(n)
  BY <1>2, <1>8
<1>10. QED
  BY <1>1, <1>9 DEF f, Time

BesideAt(h, col, n, k, r) == IF k - 1 = 0 /\ h.head = {} THEN {r} ELSE BesideRuns(col, M!Least(columns - 1, n), k - 1, r)
HoldRuns(h, n) == M!Times(h.spans + 1, {M!Run(M!Hold(h.spans, 0, {}, M!Column(h.x)), c) : c \in M!Usable},
                          LAMBDA k, r : BesideAt(h, M!Column(h.x), n, k, r))

LEMMA HoldsInTime ==
    ASSUME columns \in Nat \ {0, 1}, NEW h, h.x \in Nat, h.spans \in Nat \ {0}, NEW count \in 0..2
    PROVE  HoldRuns(h, count) \subseteq InTime(M!Column(h.x), h.spans, h.spans + 1, 0)
<1> DEFINE spans == h.spans
           n == spans + 1
           col == M!Column(h.x)
           most == M!Least(columns - 1, count)
           Time(k) == InTime(col, spans, k, 0)
           St(k, r) == BesideAt(h, col, count, k, r)
           runs == {M!Run(M!Hold(spans, 0, {}, col), c) : c \in M!Usable}
           Rec(f) == f = [k \in 0..n |-> IF k = 0 THEN runs ELSE UNION {St(k, r) : r \in f[k - 1]}]
<1>1. HoldRuns(h, count) = (CHOOSE f : Rec(f))[n]
  BY Zenon DEF HoldRuns, M!Times
<1>2. n \in Nat /\ spans \in Nat \ {0} /\ col \in M!Usable
  BY ColumnIsUsable
<1>3. most \in Nat /\ most <= 2 /\ most < columns - M!FirstColumn
  <2> DEFINE m == columns - 1
  <2>1. m \in Int /\ count \in Int /\ most = M!Least(m, count)
    OBVIOUS
  <2> HIDE DEF m, most
  <2>2. most = IF m <= count THEN m ELSE count
    BY <2>1, OfTwo, Zenon
  <2>3. QED
    BY <2>2 DEF m, M!FirstColumn
<1> HIDE DEF most, col, spans, n
<1>4. ASSUME NEW k \in 1..n, NEW r \in Time(k - 1) PROVE St(k, r) \in SUBSET Time(k)
  <2> DEFINE j == k - 1
             z == 0
             B == BesideRuns(col, most, j, r)
  <2>1. j \in Nat /\ k \in Nat \ {0} /\ z \in Nat /\ z <= 2
    BY <1>2
  <2>2. St(k, r) = {r} \/ St(k, r) = B
    BY Zenon DEF BesideAt, most
  <2>3. r \in InTime(col, spans, j, z)
    OBVIOUS
  <2> HIDE DEF j, B, St
  <2>4. B \subseteq InTime(col, spans, j, most)
    BY <1>2, <1>3, <2>1, <2>3, BesideInTime DEF B, z
  <2>5. InTime(col, spans, k - 1, most) \subseteq Time(k)
    BY <1>2, <1>3, <2>1, TapsStay
  <2>6. InTime(col, spans, k - 1, z) \subseteq Time(k)
    <3> HIDE DEF z
    <3>1. QED
      BY <1>2, <2>1, TapsStay
  <2>7. B \subseteq Time(k)
    BY <2>4, <2>5 DEF j
  <2>8. r \in Time(k)
    BY <2>3, <2>6 DEF j
  <2> HIDE DEF Time
  <2>9. QED
    BY <2>2, <2>7, <2>8
<1> HIDE DEF St
<1>5. runs \in SUBSET Time(0)
  <2> SUFFICES ASSUME NEW c \in M!Usable PROVE M!Run(M!Hold(spans, 0, {}, col), c) \in Time(0)
    OBVIOUS
  <2> DEFINE note == [lane |-> col, at |-> 0, until |-> spans, second |-> FALSE]
             ns == {note}
  <2>1. c \in Int /\ col \in Int
    BY <1>2, UsableIs
  <2>2. note \in ANote /\ note.lane = col /\ note.at = 0 /\ note.until = spans /\ note.second = FALSE
    BY <1>2, <2>1 DEF ANote
  <2>3. M!Run(M!Hold(spans, 0, {}, col), c) = M!Run(ns, c)
    BY DEF M!Hold
  <2> HIDE DEF note
  <2>4. \A l \in Nat : At(l, ns) = {}
    BY <1>2, <2>2 DEF At, M!Lanes
  <2>5. ns \in SUBSET ANote /\ IsFiniteSet(ns)
    BY <2>2, FS_Singleton, Zenon
  <2>6. \A x \in ns : x.second = FALSE /\ x.lane = col /\ x.at = 0 /\ x.until = spans
    BY <2>2
  <2> HIDE DEF ns
  <2>7. Held(ns, col, spans, 0, 0)
    BY <2>4, <2>5, <2>6, FS_EmptySet DEF Held
  <2>8. M!Run(ns, c) \in ARun /\ M!Run(ns, c).notes = ns /\ M!Run(ns, c).ok /\ M!Run(ns, c).col = c
    BY <2>1, <2>5 DEF M!Run, ARun
  <2>9. QED
    BY <2>3, <2>7, <2>8 DEF InTime
<1> HIDE DEF runs, Time
<1> DEFINE G == [k \in 0..n |-> Time(k)]
           S == [k \in 1..n |-> [r \in Time(k - 1) |-> St(k, r)]]
<1>6. PICK g : Unrolls(g, n, runs, S) /\ Within(g, n, G)
  <2>1. runs \in SUBSET G[0]
    BY <1>2, <1>5
  <2>2. \A k \in 1..n : \A r \in G[k - 1] : S[k][r] \in SUBSET G[k]
    BY <1>2, <1>4
  <2> HIDE DEF G, S
  <2>3. n \in Nat
    BY <1>2
  <2>4. Leads(n, runs, S, G)
    BY <2>1, <2>2, Zenon DEF Leads
  <2>5. QED
    BY <2>3, <2>4, Unfolds, Zenon
<1>7. Rec(g)
  <2>1. ASSUME NEW k \in 1..n PROVE {S[k][r] : r \in g[k - 1]} = {St(k, r) : r \in g[k - 1]}
    <3>1. k - 1 \in 0..n
      BY <1>2
    <3>2. g[k - 1] \in SUBSET Time(k - 1)
      BY <1>6, <3>1 DEF Within
    <3>3. QED
      BY <3>2, Zenon
  <2> HIDE DEF S, G
  <2>2. ASSUME NEW k \in 0..n PROVE g[k] = IF k = 0 THEN runs ELSE UNION {St(k, r) : r \in g[k - 1]}
    <3>1. g[k] = IF k = 0 THEN runs ELSE UNION {S[k][r] : r \in g[k - 1]}
      BY <1>6, Zenon DEF Unrolls
    <3>2. CASE k = 0
      BY <3>1, <3>2
    <3>3. CASE k # 0
      <4>1. k \in 1..n
        BY <1>2, <3>3
      <4>2. QED
        BY <2>1, <3>1, <3>3, <4>1, Zenon
    <3>4. QED
      BY <3>2, <3>3
  <2>3. g = [k \in 0..n |-> g[k]]
    BY <1>6, Zenon DEF Unrolls
  <2>4. QED
    BY <2>2, <2>3
<1> DEFINE f == CHOOSE h_ : Rec(h_)
           T == {k \in 0..n : f[k] \in SUBSET Time(k)}
<1>8. Rec(f)
  BY <1>7, Zenon
<1> HIDE DEF f
<1>9. \A k \in 0..n : k \in T
  <2>1. 0 \in T
    BY <1>2, <1>5, <1>8
  <2>2. ASSUME NEW k \in 1..n, k - 1 \in T PROVE k \in T
    <3>1. k \in 0..n /\ k - 1 \in 0..n /\ k # 0 /\ f[k - 1] \in SUBSET Time(k - 1)
      BY <1>2, <2>2
    <3>2. f[k] = UNION {St(k, r) : r \in f[k - 1]}
      BY <1>8, <3>1
    <3>3. ASSUME NEW x \in f[k] PROVE x \in Time(k)
      <4>1. PICK r \in f[k - 1] : x \in St(k, r)
        BY <3>2, <3>3
      <4>2. QED
        BY <1>4, <3>1, <4>1
    <3>4. QED
      BY <3>1, <3>3
  <2> HIDE DEF T
  <2>3. QED
    BY <1>2, <2>1, <2>2, UpTo
<1>10. f[n] \subseteq Time(n)
  BY <1>2, <1>9
<1>11. QED
  BY <1>1, <1>10, Zenon DEF f, Time, n, spans, col

LEMMA HoldCountsFit ==
    ASSUME NEW h, NEW p2 \in Int, NEW p3 \in Int, NEW n \in M!HoldCounts(h, p2, p3) \cup M!CappedHoldCounts(h, p2, p3)
    PROVE  n \in 1..3
<1>1. ASSUME NEW p \in Int, NEW q \in Int PROVE M!HoldCounts(h, p, q) \subseteq 1..3
  <2> DEFINE all == 1000
  <2>1. all \in Int
    OBVIOUS
  <2> HIDE DEF all
  <2>2. M!Counts(all, q, 0, 0) \subseteq 1..3 /\ M!Counts(p, q, 0, 0) \subseteq 1..3
    BY <1>1, <2>1, CountsUpTo
  <2>3. M!HoldCounts(h, p, q) = M!Counts(all, q, 0, 0) \/ M!HoldCounts(h, p, q) = M!Counts(p, q, 0, 0)
    BY Zenon DEF M!HoldCounts, all
  <2>4. QED
    BY <2>2, <2>3
<1>2. ASSUME NEW c \in Int PROVE M!Least(p2, c) \in Int /\ M!Least(p3, c) \in Int
  BY OfTwo, Zenon
<1> DEFINE z == 0
           a == M!Least(p2, 100)
           b == M!Least(p2, 300)
           c == M!Least(p3, 40)
           d == M!Least(p2, 340)
           e == M!Least(p3, 100)
<1>3. z \in Int /\ a \in Int /\ b \in Int /\ c \in Int /\ d \in Int /\ e \in Int
  <2> DEFINE i == 100
             j == 300
             k == 40
             l == 340
  <2>1. i \in Int /\ j \in Int /\ k \in Int /\ l \in Int
    OBVIOUS
  <2> HIDE DEF i, j, k, l
  <2>2. /\ M!Least(p2, i) \in Int /\ M!Least(p2, j) \in Int /\ M!Least(p3, k) \in Int /\ M!Least(p2, l) \in Int
        /\ M!Least(p3, i) \in Int
    BY <1>2, <2>1
  <2>3. QED
    BY <2>2 DEF i, j, k, l
<1>4. n \in M!HoldCounts(h, p2, p3) \cup M!HoldCounts(h, z, z) \cup M!HoldCounts(h, a, z)
           \cup M!HoldCounts(h, b, c) \cup M!HoldCounts(h, d, e)
  BY DEF M!CappedHoldCounts
<1> HIDE DEF z, a, b, c, d, e
<1>5. QED
  BY <1>1, <1>3, <1>4

LEMMA SingleSpanCountsFit ==
    ASSUME difficulty \in Int, NEW h, NEW n \in M!SingleSpanCounts(h)
    PROVE  n \in 1..3
<1> DEFINE a == 850
           b == 360
           c == 780
           d == 300
           e == 560
           f == 180
           g == 430
           i == 80
           j == 370
           k == 270
           l == 170
           z == 0
           C(p, q) == M!CappedHoldCounts(h, p, q)
<1>1. /\ a \in Int /\ b \in Int /\ c \in Int /\ d \in Int /\ e \in Int /\ f \in Int /\ g \in Int /\ i \in Int
      /\ j \in Int /\ k \in Int /\ l \in Int /\ z \in Int
  OBVIOUS
<1>2. n \in C(a, b) \cup C(c, d) \cup C(e, f) \cup C(g, i) \cup C(j, i) \cup C(d, z) \cup C(k, z) \cup C(l, z)
  <2>1. CASE difficulty > 65
    BY <2>1 DEF M!SingleSpanCounts
  <2>2. CASE difficulty > 40 /\ difficulty <= 65
    BY <2>2 DEF M!SingleSpanCounts
  <2>3. CASE difficulty > 25 /\ difficulty <= 40
    BY <2>3 DEF M!SingleSpanCounts
  <2>4. CASE difficulty <= 25
    BY <2>4 DEF M!SingleSpanCounts
  <2>5. QED
    BY <2>1, <2>2, <2>3, <2>4
<1> HIDE DEF a, b, c, d, e, f, g, i, j, k, l, z
<1>3. QED
  BY <1>1, <1>2, HoldCountsFit

(* slider_gen_hold_and_normal.                                              *)
LEMMA HoldAndNormalFine ==
    ASSUME LanesInv, NEW h, h.x \in Nat, h.spans \in Nat \ {0}, NEW r \in M!HoldAndNormal(h)
    PROVE  Slid(r, h.spans)
<1> DEFINE few == columns < 6
           counts == CASE difficulty > 65 -> M!Counts(630, 0, 0, 0)
                       [] difficulty > 40 /\ difficulty <= 65 -> M!Counts(IF few THEN 120 ELSE 450, 0, 0, 0)
                       [] difficulty > 25 /\ difficulty <= 40 -> M!Counts(IF few THEN 0 ELSE 240, 0, 0, 0)
                       [] OTHER -> {0}
<1>1. M!HoldAndNormal(h) = UNION {HoldRuns(h, n) : n \in counts}
  BY Zenon DEF M!HoldAndNormal, HoldRuns, BesideAt, BesideRuns, TapStep, At
<1>2. \A n \in counts : n \in 0..2
  <2> DEFINE a == 630
             b == IF few THEN 120 ELSE 450
             c == IF few THEN 0 ELSE 240
             z == 0
  <2>1. a \in Int /\ b \in Int /\ c \in Int /\ difficulty \in Int
    BY DEF LanesInv
  <2>2. counts = M!Counts(a, 0, 0, 0) \/ counts = M!Counts(b, 0, 0, 0) \/ counts = M!Counts(c, 0, 0, 0) \/ counts = {0}
    <3> HIDE DEF few
    <3>1. CASE difficulty > 65
      BY <3>1
    <3>2. CASE difficulty > 40 /\ difficulty <= 65
      BY <2>1, <3>2
    <3>3. CASE difficulty > 25 /\ difficulty <= 40
      BY <2>1, <3>3
    <3>4. CASE difficulty <= 25
      BY <2>1, <3>4
    <3>5. QED
      BY <2>1, <3>1, <3>2, <3>3, <3>4
  <2> HIDE DEF a, b, c, counts
  <2>3. M!Counts(a, 0, 0, 0) \subseteq 1..2 /\ M!Counts(b, 0, 0, 0) \subseteq 1..2 /\ M!Counts(c, 0, 0, 0) \subseteq 1..2
    BY <2>1, CountsUpTo
  <2>4. 1..2 \subseteq 0..2 /\ {0} \subseteq 0..2
    OBVIOUS
  <2>5. QED
    BY <2>2, <2>3, <2>4
<1> HIDE DEF counts
<1>3. PICK n \in counts : r \in HoldRuns(h, n)
  BY <1>1
<1>4. columns \in Nat \ {0, 1} /\ n \in 0..2 /\ M!Column(h.x) \in M!Usable
  BY <1>2, ColumnIsUsable DEF LanesInv
<1>5. r \in InTime(M!Column(h.x), h.spans, h.spans + 1, 0)
  BY <1>3, <1>4, HoldsInTime
<1>6. h.spans + 1 \in Nat
  OBVIOUS
<1>7. QED
  BY <1>4, <1>5, <1>6, HeldsAreFine

(* slider_generate.                                                         *)
LEMMA SlidersAreFine ==
    ASSUME LanesInv, NEW h, h.x \in Nat, h.spans \in Nat \ {0}, NEW r \in M!SliderRuns(h)
    PROVE  Slid(r, h.spans)
<1>1. columns \in Nat \ {0, 1} /\ difficulty \in Int /\ h.spans \in Nat /\ h.spans + 1 \in Nat
  BY DEF LanesInv
<1>2. ASSUME NEW n \in Nat, n <= 6, r \in M!Holds(h, n) PROVE Slid(r, h.spans)
  <2>1. PICK k \in Nat : k <= n /\ r \in Spread(k)
    BY <1>1, <1>2, HoldsSpread
  <2>2. k <= 6
    BY <1>2, <2>1
  <2>3. QED
    BY <1>1, <2>1, <2>2, SpreadsSlide
<1>3. ASSUME NEW k \in Nat, r \in Walks(k) PROVE Slid(r, h.spans)
  BY <1>1, <1>3, StepsAreFine DEF Walks
<1>4. ASSUME NEW k \in Nat, NEW apart, r \in M!NotesNoStack(h, k, apart) PROVE Slid(r, h.spans)
  BY <1>3, <1>4, NotesNoStackWalk
<1>5. CASE r \in M!NotesNoStack(h, IF h.seg < 80 THEN 1 ELSE 2, M!Cardinality(prev) < columns)
  <2> DEFINE n == IF h.seg < 80 THEN 1 ELSE 2
  <2>1. n \in Nat
    OBVIOUS
  <2> HIDE DEF n
  <2>2. QED
    BY <1>4, <1>5, <2>1 DEF n
<1>6. CASE r \in UNION {M!Holds(h, n) : n \in M!SingleSpanCounts(h)}
  <2>1. PICK n \in M!SingleSpanCounts(h) : r \in M!Holds(h, n)
    BY <1>6
  <2>2. n \in 1..3
    BY <1>1, SingleSpanCountsFit
  <2>3. n \in Nat /\ n <= 6
    BY <2>2
  <2>4. QED
    BY <1>2, <2>1, <2>3
<1>7. CASE r \in M!Holds(h, 1)
  <2> DEFINE one == 1
  <2>1. one \in Nat /\ one <= 6 /\ r \in M!Holds(h, one)
    BY <1>7
  <2> HIDE DEF one
  <2>2. QED
    BY <1>2, <2>1
<1>8. CASE r \in M!NotesNoStack(h, h.spans + 1, TRUE)
  <2> DEFINE n == h.spans + 1
             yes == TRUE
  <2>1. n \in Nat /\ r \in M!NotesNoStack(h, n, yes)
    BY <1>1, <1>8, Zenon
  <2> HIDE DEF n, yes
  <2>2. QED
    BY <1>4, <2>1
<1>9. CASE r \in M!Stair(h)
  BY <1>1, <1>9, StairsAreFine, StepsAreFine
<1>10. CASE r \in M!RandomMultiple(h)
  <2> DEFINE intervals == IF columns = 1 THEN {1} ELSE 1 .. columns - Legacy - 1
  <2>1. M!RandomMultiple(h) = UNION {MultipleRuns(h, i) : i \in intervals}
    BY Zenon DEF M!RandomMultiple, MultipleRuns, MultipleStep, Beside, Legacy
  <2>2. PICK i \in intervals : r \in MultipleRuns(h, i)
    BY <1>10, <2>1
  <2>3. i \in 1 .. columns - Legacy - 1
    BY <1>1, <2>2
  <2>4. r \in Walks(h.spans + 1)
    BY <1>1, <2>2, <2>3, MultiplesWalk
  <2>5. QED
    BY <1>1, <1>3, <2>4
<1>11. CASE r \in UNION {M!Holds(h, n) : n \in M!HoldCounts(h, 230, 0)}
  <2>1. PICK n \in M!HoldCounts(h, 230, 0) : r \in M!Holds(h, n)
    BY <1>11
  <2>2. n \in 1..3
    <3> DEFINE a == 230
               z == 0
    <3>1. a \in Int /\ z \in Int /\ n \in M!HoldCounts(h, a, z)
      OBVIOUS
    <3> HIDE DEF a, z
    <3>2. QED
      BY <3>1, HoldCountsFit
  <2>3. n \in Nat /\ n <= 6
    BY <2>2
  <2>4. QED
    BY <1>2, <2>1, <2>3
<1>12. CASE h.spans < columns - 1 - M!FirstColumn /\ r \in M!TiledHolds(h)
  <2>1. r \in Spread(h.spans)
    BY <1>1, <1>12, TiledHoldsSpread
  <2>2. columns = 8 => h.spans <= 6
    BY <1>1, <1>12, UsableIs
  <2>3. QED
    BY <1>1, <2>1, <2>2, SpreadsSlide
<1>13. CASE r \in M!HoldAndNormal(h)
  BY <1>13, HoldAndNormalFine
<1> DEFINE A == M!NotesNoStack(h, IF h.seg < 80 THEN 1 ELSE 2, M!Cardinality(prev) < columns)
           B == UNION {M!Holds(h, n) : n \in M!SingleSpanCounts(h)}
           C == UNION {M!Holds(h, n) : n \in M!HoldCounts(h, 230, 0)}
           short == h.spans < columns - 1 - M!FirstColumn
           one == h.spans = 1
           c1 == h.seg <= 110
           c2 == h.seg <= 90
           c3 == h.seg <= 120
           c4 == h.seg <= 160
           c5 == h.seg <= 200 /\ difficulty > 30
           c6 == h.seg * h.spans >= 4000
           c7 == h.seg > 400
<1>14. r \in IF one THEN IF c1 THEN A ELSE B
             ELSE IF c2 THEN M!Holds(h, 1)
             ELSE IF c3 THEN M!NotesNoStack(h, h.spans + 1, TRUE)
             ELSE IF c4 THEN M!Stair(h)
             ELSE IF c5 THEN M!RandomMultiple(h)
             ELSE IF c6 THEN C
             ELSE IF c7 /\ short THEN M!TiledHolds(h) ELSE M!HoldAndNormal(h)
  BY Zenon DEF M!SliderRuns
<1> HIDE DEF A, B, C, short, one, c1, c2, c3, c4, c5, c6, c7
<1>15. \/ r \in A \union B \union C \union M!Holds(h, 1) \union M!NotesNoStack(h, h.spans + 1, TRUE)
       \/ r \in M!Stair(h) \union M!RandomMultiple(h) \union M!HoldAndNormal(h)
       \/ short /\ r \in M!TiledHolds(h)
  BY <1>14, Zenon
<1>16. QED
  BY <1>5, <1>6, <1>7, <1>8, <1>9, <1>10, <1>11, <1>12, <1>13, <1>15, Zenon DEF A, B, C, short

NoteInv == LanesInv /\ (\E m \in Maps : columns = m[1]) /\ NotesCanBePlayed

LEMMA NotesMove ==
    ASSUME [Next]_vars
    PROVE  M!Next \/ UNCHANGED noteVars
BY DEF Next, vars, noteVars

LEMMA NotesBecome ==
    ASSUME NoteInv, UNCHANGED <<columns, difficulty>>, NEW run, run.ok \in BOOLEAN, NEW ends, M!Becomes(run, ends),
           run.ok => Playable(run.notes) /\ ends \subseteq 0..columns - 1 /\ LeavesRoom(ends),
           ~run.ok => OutOfLanes
    PROVE  NoteInv'
<1>1. columns' = columns /\ difficulty' = difficulty /\ M!Usable' = M!Usable
  BY DEF M!Usable, M!FirstColumn
<1>2. LanesInv'
  <2>1. prev' \subseteq 0..columns - 1 /\ LeavesRoom(prev')
    BY Zenon DEF M!Becomes, NoteInv, LanesInv, LeavesRoom
  <2>2. QED
    BY <1>1, <2>1 DEF NoteInv, LanesInv, LeavesRoom
<1>3. NotesCanBePlayed'
  <2>1. failed' => OutOfLanes
    BY Zenon DEF M!Becomes
  <2>2. Playable(notes')
    BY DEF M!Becomes, Playable
  <2>3. \A n : M!Second(n)' = M!Second(n)
    BY DEF M!Second
  <2>4. QED
    BY <1>1, <2>1, <2>2 DEF NotesCanBePlayed, M!NotesCanBePlayed, Playable, OutOfLanes, M!Second
<1>4. QED
  BY <1>1, <1>2, <1>3 DEF NoteInv

LEMMA NoteStep ==
    ASSUME NoteInv, M!Next
    PROVE  NoteInv'
<1>1. LanesInv /\ columns \in Nat \ {0, 1}
  BY DEF NoteInv, LanesInv
<1>2. PICK m \in Maps : columns = m[1]
  BY DEF NoteInv
<1>3. /\ UNCHANGED <<columns, difficulty>> /\ \A h \in Circles(columns) : h.x \in Nat
      /\ \A h \in Sliders(columns) : h.x \in Nat /\ h.spans \in Nat \ {0}
  BY <1>2, NotesAssumption DEF M!Next
<1>4. ASSUME NEW r \in ARun
      PROVE  LET q == [r EXCEPT !.col = 0] IN q.notes = r.notes /\ q.ok = r.ok /\ r.ok \in BOOLEAN
  BY DEF ARun
<1>5. CASE M!Circle
  <2>0. PICK h \in Circles(columns) : \E run \in M!Outcomes(M!CircleRuns(h)) : M!Becomes(run, M!Lanes(run.notes))
    BY <1>5 DEF M!Circle
  <2>1. PICK run \in M!Outcomes(M!CircleRuns(h)) : M!Becomes(run, M!Lanes(run.notes))
    BY <2>0
  <2>2. PICK r \in M!CircleRuns(h) : run = [r EXCEPT !.col = 0]
    BY DEF M!Outcomes
  <2>3. r \in ARun /\ Fine(r)
    BY <1>1, <1>3, CirclesAreFine
  <2>4. run.notes = r.notes /\ run.ok = r.ok /\ run.ok \in BOOLEAN
    BY <1>4, <2>2, <2>3
  <2>5. run.ok => Playable(run.notes) /\ M!Lanes(run.notes) \subseteq 0..columns - 1 /\ LeavesRoom(M!Lanes(run.notes))
    BY <2>3, <2>4 DEF Fine, Playable, M!Lanes
  <2>6. ~run.ok => OutOfLanes
    BY <2>3, <2>4 DEF Fine
  <2>7. QED
    BY <1>3, <2>1, <2>4, <2>5, <2>6, NotesBecome
<1>6. CASE M!Slider
  <2>0. PICK h \in Sliders(columns) : \E run \in M!Outcomes(M!SliderRuns(h)) : M!Becomes(run, M!EndColumns(run.notes, h.spans))
    BY <1>6 DEF M!Slider
  <2>1. PICK run \in M!Outcomes(M!SliderRuns(h)) : M!Becomes(run, M!EndColumns(run.notes, h.spans))
    BY <2>0
  <2>2. PICK r \in M!SliderRuns(h) : run = [r EXCEPT !.col = 0]
    BY DEF M!Outcomes
  <2>3. Slid(r, h.spans)
    BY <1>1, <1>3, SlidersAreFine
  <2>4. run.notes = r.notes /\ run.ok
    BY <1>4, <2>2, <2>3 DEF Slid
  <2>5. Playable(run.notes) /\ LeavesRoom(M!EndColumns(run.notes, h.spans))
    BY <2>3, <2>4 DEF Slid
  <2>6. M!EndColumns(run.notes, h.spans) \subseteq 0..columns - 1
    BY <2>5 DEF Playable, M!EndColumns, M!Lanes
  <2>7. run.ok \in BOOLEAN
    BY <1>4, <2>2, <2>3 DEF Slid
  <2> DEFINE ends == M!EndColumns(run.notes, h.spans)
  <2>8. /\ run.ok => Playable(run.notes) /\ ends \subseteq 0..columns - 1 /\ LeavesRoom(ends)
        /\ ~run.ok => OutOfLanes
    BY <2>4, <2>5, <2>6
  <2> HIDE DEF ends
  <2>9. QED
    BY <1>3, <2>1, <2>7, <2>8, NotesBecome DEF ends
<1>7. CASE M!Spinner
  <2> DEFINE force == M!Cardinality(prev) < columns
             free == IF force THEN UNION {M!Available(c, M!Usable, prev, {}, FALSE) : c \in M!Usable} ELSE 0 .. columns - 1
             note(c, hold) == [M!Tap(c, 0) EXCEPT !.until = IF hold THEN 1 ELSE 0]
             Spin(c, hold) == [M!Run({}, 0) EXCEPT !.notes = {note(c, hold)}, !.col = c]
  <2>1. free # {} /\ free \subseteq 0..columns - 1
    <3>1. CASE force
      <4>1. M!FirstColumn \in M!Usable /\ M!Usable \subseteq 0..columns - 1
        BY <1>1, UsableIs
      <4>2. \A c \in M!Usable : M!Available(c, M!Usable, prev, {}, FALSE) # {} /\ M!Available(c, M!Usable, prev, {}, FALSE) \subseteq M!Usable
        BY <1>1, <3>1, BesidePrev, Zenon
      <4> DEFINE U == UNION {M!Available(c, M!Usable, prev, {}, FALSE) : c \in M!Usable}
      <4>3. U # {} /\ U \subseteq 0..columns - 1
        <5>1. PICK x \in M!Available(M!FirstColumn, M!Usable, prev, {}, FALSE) : x \in U
          BY <4>1, <4>2, Zenon
        <5>2. ASSUME NEW y \in U PROVE y \in 0..columns - 1
          BY <4>1, <4>2, <5>2, Zenon
        <5>3. QED
          BY <5>1, <5>2, Zenon
      <4>4. free = U
        BY <3>1
      <4>5. QED
        BY <4>3, <4>4, Zenon
    <3>2. CASE ~force
      BY <1>1, <3>2
    <3>3. QED
      BY <3>1, <3>2, Zenon
  <2> HIDE DEF free, note
  <2>20. PICK hold \in BOOLEAN : \E run \in M!Then(M!Run({}, 0), free, LAMBDA ns, c : {note(c, hold)}) : M!Becomes(run, prev)
    BY <1>7, Zenon DEF M!Spinner, free, note
  <2>2. PICK run : /\ run \in M!Then(M!Run({}, 0), free, LAMBDA ns, c : {note(c, hold)})
                   /\ M!Becomes(run, prev)
    BY <2>20, Zenon
  <2>3. PICK c \in free : run = Spin(c, hold)
    BY <2>1, <2>2, Zenon DEF M!Then, M!Run
  <2>4. run.ok /\ run.ok \in BOOLEAN /\ run.notes = {note(c, hold)}
    BY <2>3, Zenon DEF M!Run
  <2>5. note(c, hold).lane = c
    BY Zenon DEF note, M!Tap
  <2>6. Playable(run.notes)
    BY <2>1, <2>4, <2>5, Zenon DEF Playable
  <2>7. prev \subseteq 0..columns - 1 /\ LeavesRoom(prev)
    BY <1>1, Zenon DEF LanesInv, LeavesRoom
  <2>70. PICK ends : ends = prev
    OBVIOUS
  <2>71. M!Becomes(run, ends)
    BY <2>2, <2>70, Zenon DEF M!Becomes
  <2>8. run.ok => Playable(run.notes) /\ ends \subseteq 0..columns - 1 /\ LeavesRoom(ends)
    BY <2>6, <2>7, <2>70, Zenon
  <2>9. ~run.ok => OutOfLanes
    BY <2>4
  <2>10. run.ok \in BOOLEAN
    BY <2>4
  <2>11. UNCHANGED <<columns, difficulty>>
    BY <1>3
  <2>12. QED
    BY <2>71, <2>8, <2>9, <2>10, <2>11, NotesBecome
<1>8. QED
  BY <1>5, <1>6, <1>7 DEF M!Next

(* Every note of a converted map is in a lane of the map and no lane holds   *)
(* two at once, for maps of any two keys or more and objects anywhere, by   *)
(* every draw of convert_circle, convert_slider and convert_spinner; and a  *)
(* draw fails only where the lanes do not suffice.                          *)
THEOREM NotesFitTheirLanes == Spec => []NotesCanBePlayed
<1>1. Init => NoteInv
  <2> SUFFICES ASSUME Init PROVE NoteInv
    OBVIOUS
  <2>1. PICK m \in Maps : columns = m[1] /\ difficulty = m[2]
    BY DEF Init, M!Init
  <2>2. prev = {} /\ notes = {} /\ failed = FALSE
    BY DEF Init, M!Init
  <2>3. columns \in Nat \ {0, 1} /\ difficulty \in Int
    BY <2>1, NotesAssumption
  <2>4. M!Usable # {}
    BY <2>3 DEF M!Usable, M!FirstColumn
  <2>5. QED
    BY <2>1, <2>2, <2>3, <2>4 DEF NoteInv, LanesInv, NotesCanBePlayed, M!NotesCanBePlayed
<1>2. NoteInv /\ [Next]_vars => NoteInv'
  <2> SUFFICES ASSUME NoteInv, [Next]_vars PROVE NoteInv'
    OBVIOUS
  <2>1. CASE M!Next
    BY <2>1, NoteStep
  <2>2. CASE UNCHANGED noteVars
    BY <2>2 DEF noteVars, NoteInv, LanesInv, NotesCanBePlayed, M!NotesCanBePlayed, M!Usable, M!FirstColumn, M!Second
  <2>3. QED
    BY <2>1, <2>2, NotesMove
<1>3. NoteInv => NotesCanBePlayed
  BY DEF NoteInv
<1>4. QED
  BY <1>1, <1>2, <1>3, PTL DEF Spec
==============================================================================
