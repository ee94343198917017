------------------------------ MODULE MCAnswers ------------------------------
(***************************************************************************)
(* An instance of Answers for TLC, beside the algorithms.                   *)
(***************************************************************************)
EXTENDS MCAlgorithms

------------------------------------------------------------------------------
(* Queries: a group and a private chat, two QQs, two players.  u1 has three *)
(* scores on two maps, one older than a day.                                *)
S(i, m, today, fits) == [id |-> i, map |-> m, today |-> today, pp |-> TRUE, fits |-> fits]
MCScores == ("u1" :> <<S(1, "m1", TRUE, FALSE), S(2, "m2", FALSE, TRUE), S(3, "m1", TRUE, TRUE)>>)
         @@ ("u2" :> <<S(4, "m2", FALSE, TRUE)>>)
MCMapOf == (3 :> "m1")
MCBound == ("q1" :> "u1") @@ ("q2" :> Nil)
MCKnown == ("q1" :> Nil) @@ ("q2" :> "u2")
C(what, q, chat) == [kind |-> what, qq |-> q, chat |-> chat, target |-> "self", at |-> Nil,
                     score |-> Nil, map |-> Nil, limit |-> 1, end |-> Nil, all |-> FALSE,
                     filter |-> "none", explicit |-> FALSE]
MCCommands ==
    {C("recent", "q1", "group"),
     [C("recent", "q2", "chat2") EXCEPT !.target = "name", !.at = "u1"],
     [C("recent", "q2", "chat2") EXCEPT !.target = "mention", !.at = "q1", !.limit = 2, !.end = 3],
     [C("todayBest", "q1", "group") EXCEPT !.all = TRUE, !.filter = "other"],
     C("onMap", "q1", "group"),
     [C("onMap", "q2", "group") EXCEPT !.map = "m2", !.target = "name", !.at = "u1", !.all = TRUE],
     [C("pass", "q1", "group") EXCEPT !.map = "m2"],
     C("audio", "q1", "group"),
     [C("audio", "q1", "group") EXCEPT !.explicit = TRUE],
     C("preview", "q2", "group"),
     [C("preview", "q1", "group") EXCEPT !.explicit = TRUE, !.limit = 2],
     [C("best", "q1", "group") EXCEPT !.score = 3],
     C("highlight", "q1", "group"),
     C("stats", "q2", "group"),
     [C("stats", "q2", "group") EXCEPT !.target = "mention", !.at = "q1"],
     [C("profile", "q1", "group") EXCEPT !.target = "name", !.at = "u1"],
     [C("profile", "q2", "group") EXCEPT !.target = "mention", !.at = "q1"]}

(* Files: an image two callers want while a third fetches it anew, a        *)
(* beatmap under two of its statuses, bytes next to an image.               *)
Want(f, via) == [file |-> f, via |-> via]
Workload(a, b, c) == ("l1" :> a) @@ ("l2" :> b) @@ ("l3" :> c)
MCWorkloads == {Workload(Want("i", "image"), Want("i", "forced"), Want("i", "image")),
                Workload(Want("o1", "path"), Want("o2", "path"), Want("o1", "path")),
                Workload(Want("a", "bytes"), Want("a", "bytes"), Want("b", "image"))}
MCSiblings(f) == IF f = "o1" THEN {"o2"} ELSE IF f = "o2" THEN {"o1"} ELSE {}

(* A conversion to two, four or eight lanes; of eight only a few inputs.    *)
MCMaps == {<<2, 35>>, <<4, 35>>, <<4, 70>>, <<8, 35>>}
Gap(gap, near, dense) == [gap |-> gap, near |-> near, dense |-> dense]
Gaps(c) == {Gap(90, FALSE, TRUE), Gap(200, TRUE, FALSE)}
           \union IF c = 8 THEN {}
                  ELSE {Gap(80, FALSE, TRUE), Gap(100, FALSE, TRUE), Gap(130, TRUE, FALSE),
                        Gap(145, TRUE, FALSE), Gap(200, FALSE, FALSE)}
MCCircles(c) == {[x |-> 300, gap |-> g.gap, near |-> g.near, dense |-> g.dense, kiai |-> FALSE, sound |-> s] :
                  g \in Gaps(c), s \in {{}, {"clap", "finish"}} \union IF c = 8 THEN {} ELSE {{"finish"}}}
MCSliders(c) == {[x |-> 511, seg |-> p[1], spans |-> p[2], kiai |-> s # {}, sound |-> s, head |-> s] :
                  s \in IF c = 8 THEN {{}} ELSE {{}, {"clap"}},
                  p \in {<<100, 1>>} \union IF c = 8 THEN {}
                        ELSE {<<300, 1>>, <<100, 2>>, <<140, 2>>, <<180, 2>>, <<300, 2>>, <<500, 2>>}}

------------------------------------------------------------------------------
(* A part that does not run keeps one of its initial states.  A probe of an *)
(* algorithm is a behaviour of one state.                                   *)
MCInit ==
    /\ \/ part \in Parts /\ probe = [alg |-> "none"]
       \/ part = "algorithm" /\ probe \in Probes
    /\ part = "load" \/ want = CHOOSE w \in Workloads : TRUE
    /\ part = "picture" \/ kind = [p \in Pictures |-> "score"]
    /\ part = "notes" \/ (columns = 2 /\ difficulty = 35)
    /\ E!Init /\ Q!Init /\ L!Init /\ R!Init /\ M!Init

(* Handlers are alike: of two kinds of commands t1 has the first.           *)
Rank == [recent |-> 1, todayBest |-> 2, onMap |-> 3, pass |-> 4, audio |-> 5,
         preview |-> 6, best |-> 7, highlight |-> 8, stats |-> 9, profile |-> 10]
HandlersInOrder ==
    (\A t \in Tasks : task'[t].cmd # Nil) =>
        Rank[task'["t1"].cmd.kind] <= Rank[task'["t2"].cmd.kind]

MCNext == Next /\ HandlersInOrder /\ UNCHANGED probe
MCSpec == MCInit /\ [][MCNext]_<<vars, probe>> /\ Fairness
==============================================================================
