------------------------------- MODULE Answers -------------------------------
(***************************************************************************)
(* What it takes to answer, part by part: the matches a listener reads, the *)
(* handlers of queries, the files they load, the pictures they wait for,    *)
(* the notes of a converted map.  The parts share no state, so a behaviour  *)
(* runs one of them, chosen at its start.                                   *)
(***************************************************************************)
EXTENDS Integers, Sequences, FiniteSets

CONSTANT MaxEvents
ASSUME MaxEventsIsNat == MaxEvents \in Nat
VARIABLES log, ended
E == INSTANCE MatchEventsLoop

CONSTANTS Tasks, Commands, Users, Nil, Scores, MapOf, Bound, Known, FetchLimit
VARIABLES task, flights, bindings, last, said
Q == INSTANCE Queries
Sc == INSTANCE Scores
Operators == {"=", "==", "!="} \union Sc!Orders
Keys == Sc!Numeric \union Sc!Textual \union {"mod"}
ASSUME NilAssumption == Nil \notin Int \union Operators \union Keys
(* Nobody is bound to two QQs.  A command is about the player it names, or  *)
(* about a QQ; positions in lists of scores count from one.                 *)
CommandFields == {"kind", "qq", "chat", "target", "at", "score", "map", "limit", "end",
                  "all", "filter", "explicit"}
ASSUME QueriesAssumption ==
    /\ Nil \notin Users /\ Nil \notin Commands /\ FetchLimit \in Nat
    /\ {Bound, Known} \subseteq [DOMAIN Bound -> Users \union {Nil}]
    /\ \A q, r \in DOMAIN Bound : Bound[q] # Nil /\ Bound[q] = Bound[r] => q = r
    /\ \A u \in Users : Scores[u] \in Seq({Scores[u][i] : i \in DOMAIN Scores[u]})
    /\ \A c \in Commands :
          /\ DOMAIN c = CommandFields /\ c.filter \in {"none", "other", "pp"}
          /\ c.limit \in Nat \ {0} /\ c.end \in Nat \union {Nil}
          /\ IF c.target = "name" THEN c.at \in Users ELSE Q!About(c) \in DOMAIN Bound

CONSTANTS Loads, Workloads, Siblings(_), Permits
VARIABLES want, file, old, locks, made, held, permits, load, trouble
L == INSTANCE FileCache
(* The images of the cards have a directory of their own.                   *)
ASSUME FilesAssumption ==
    \A w \in Workloads :
        /\ w \in [Loads -> [file: L!Files, via: {"image", "forced", "path", "bytes"}]]
        /\ \A k, l \in Loads :
              w[k].via \in {"image", "forced"} /\ w[l].via \in {"path", "bytes"} =>
                 w[k].file \notin {w[l].file} \union Siblings(w[l].file)

CONSTANTS Pictures, Tiles, NoPicture
VARIABLES kind, ask, job, left, cancel, lock
ASSUME TilesAssumption == Tiles \in Nat
R == INSTANCE Rendering

CONSTANTS Maps, Circles(_), Sliders(_)
VARIABLES columns, difficulty, prev, stair, notes, failed
M == INSTANCE ManiaConvert
(* Objects lie to the right of zero, maps have two keys at least, and a     *)
(* slider runs its path once at least.                                      *)
ASSUME NotesAssumption ==
    /\ \A m \in Maps : m[1] \in Nat \ {0, 1} /\ m[2] \in Int
    /\ \A m \in Maps : /\ \A h \in Circles(m[1]) : h.x \in Nat
                       /\ \A h \in Sliders(m[1]) : h.x \in Nat /\ h.spans \in Nat \ {0}

VARIABLE part
matchVars   == <<log, ended>>
queryVars   == <<task, flights, bindings, last, said>>
loadVars    == <<want, file, old, locks, made, held, permits, load, trouble>>
pictureVars == <<kind, ask, job, left, cancel, lock>>
noteVars    == <<columns, difficulty, prev, stair, notes, failed>>
vars == <<matchVars, queryVars, loadVars, pictureVars, noteVars, part>>

Parts == {"match", "query", "load", "picture", "notes"}
Init == E!Init /\ Q!Init /\ L!Init /\ R!Init /\ M!Init /\ part \in Parts

Next ==
    \/ part = "match" /\ E!Next /\ UNCHANGED <<queryVars, loadVars, pictureVars, noteVars, part>>
    \/ part = "query" /\ Q!Next /\ UNCHANGED <<matchVars, loadVars, pictureVars, noteVars, part>>
    \/ part = "load" /\ L!Next /\ UNCHANGED <<matchVars, queryVars, pictureVars, noteVars, part>>
    \/ part = "picture" /\ R!Next /\ UNCHANGED <<matchVars, queryVars, loadVars, noteVars, part>>
    \/ part = "notes" /\ M!Next /\ UNCHANGED <<matchVars, queryVars, loadVars, pictureVars, part>>

(* Handlers go on, and the requests they share end; so do the steps of a    *)
(* load, and the thread of a picture.                                       *)
Fairness ==
    /\ \A t \in Tasks : WF_queryVars(part = "query" /\ Q!Works(t))
    /\ WF_queryVars(part = "query" /\ \E key \in DOMAIN flights : Q!Land(key))
    /\ \A l \in Loads : WF_loadVars(part = "load" /\ L!Step(l))
    /\ \A p \in Pictures : WF_pictureVars(part = "picture" /\ R!Thread(p))

Spec == Init /\ [][Next]_vars /\ Fairness

------------------------------------------------------------------------------
PagesAreProcessed == E!PagesAreProcessed
SharedAnswerFits  == Q!SharedAnswerFits
ChatsKeepTheirMap == Q!ChatsKeepTheirMap
OneQqPerBoundUser == Q!OneQqPerBoundUser
OneFetchPerUrl    == L!OneFetchPerUrl
PaintsForSomeone  == R!PaintsForSomeone
NotesCanBePlayed  == M!NotesCanBePlayed

(* Every query, every load and every picture comes to an end: none waits    *)
(* for ever for a request of another, for a lock or for a permit.           *)
EverythingEnds == []<>(Q!AllAnswered /\ (part = "load" => L!AllLoaded) /\ R!AllPainted)
==============================================================================
