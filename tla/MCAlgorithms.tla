----------------------------- MODULE MCAlgorithms -----------------------------
(***************************************************************************)
(* The algorithms, each over small inputs: a probe is the algorithm and one *)
(* of its inputs.                                                           *)
(***************************************************************************)
EXTENDS Answers, SequencesExt, FiniteSetsExt, TLC

Cmd == INSTANCE Commands
Pipe == INSTANCE ScorePipeline WITH FetchLimit <- 3
Hit == INSTANCE HitTiming
Map == INSTANCE BeatmapFile WITH MaxLines <- 2
Seg == INSTANCE PreviewSegments WITH BreakGap <- 3
Tai == INSTANCE TaikoPreview
Man == INSTANCE ManiaPreview

VARIABLE probe

------------------------------------------------------------------------------
Word(w) == [k |-> "word", w |-> w]
Num(n) == [k |-> "num", n |-> n]
Range2(a, b) == [k |-> "range", from |-> a, to |-> b]
Hash(a, b, dash) == [k |-> "hash", from |-> a, to |-> b, dash |-> dash]
Cond(key, op) == [key |-> key, op |-> op, value |-> 1]
Conds(cs) == [k |-> "cond", conds |-> cs]
Plus(mods, conds, hash) == [k |-> "plus", mods |-> mods, conds |-> conds, hash |-> hash]

Tokens == {Word("alice"), Num(0), Num(5), Num(300), Num(10000001), Range2(3, 2), Range2(201, 300),
           Hash(2, Nil, FALSE), Hash(4, 3, TRUE), [k |-> "at", n |-> 7], [k |-> "qq", n |-> Nil],
           Conds(<<Cond("miss", "=")>>), [k |-> "mode", v |-> 1], [k |-> "time", ms |-> 1000],
           Plus(<<"HD">>, <<Cond("pp", ">=")>>, Hash(2, 9, TRUE)), Plus(<<"HD">>, <<Cond("pp", ">")>>, Nil)}
Frequent == Tokens \ {Num(0), Num(300), Num(10000001), Range2(201, 300), Hash(4, 3, TRUE), [k |-> "mode", v |-> 1]}
Texts == {s \in UNION {[1 .. n -> Tokens] : n \in 0 .. 2} \union [1 .. 3 -> Frequent] :
            Len(Cmd!OfKind(s, "plus")) <= 1 /\ Len(Cmd!OfKind(s, "hash")) <= 1}
Bindings == (7 :> [name |-> <<Word("carol")>>, mode |-> 1])
         @@ (8 :> [name |-> <<Word("alice")>>, mode |-> 2])
Who == {Nil, Word("alice"), [k |-> "at", n |-> 7], [k |-> "qq", n |-> Nil]}
MlWords == {[op |-> "stop", id |-> Nil], [op |-> "start", id |-> Nil], [op |-> "list", id |-> Nil],
            [op |-> "status", id |-> Nil], [op |-> "all", id |-> Nil], [op |-> Nil, id |-> 4]}

Frame(tokens, ats) ==
    [post |-> "message", type |-> "group", group |-> 1, user |-> 9,
     segments |-> <<[type |-> "text", text |-> tokens]>>
                  \o [i \in DOMAIN ats |-> [type |-> "at", qq |-> ats[i]]]]

\* What is typed, by the heads it may be typed after.
CommandProbes ==
    [alg : {"command"}, heads : {Cmd!Scoring}, in : [tokens : Texts]]
    \union [alg : {"command"}, heads : {{"~", "where", "of mention", "bind", "highlight", "mode", "profile", "unbind"}},
            in : [who : Who \ {Nil}, arg : {Nil, 1, 9}]]
    \union [alg : {"command"}, heads : {{"bind", "profile"}}, in : [who : {Nil}, arg : {Nil}]]
    \union [alg : {"command"}, heads : {{"ml"}}, in : [words : BoundedSeq(MlWords, 2), skip : {0, 3, Nil}]]

------------------------------------------------------------------------------
(* Scores: every way the counts can lie about the cuts of the grades.       *)
Counts == [geki |-> 0, n300 |-> 0, katu |-> 0, n100 |-> 0, n50 |-> 0, miss |-> 0, ok |-> 0,
           largeHit |-> 0, smallHit |-> 0, largeMiss |-> 0, smallMiss |-> 0]
Plays == {0, 1, 5, 6, 7, 8, 9, 18, 19, 40, 150, 250}
Graded(mode, h, s) == [alg |-> "grade", mode |-> mode, hundred |-> h, s |-> s]
GradeProbes ==
    {Graded(mode, h, [Counts EXCEPT !.n300 = n, ![h] = a, !.n50 = b, !.miss = c]) :
        mode \in {"osu", "taiko"}, n \in Plays, h \in {"n100", "ok"}, a, b, c \in 0 .. 2}
    \union
    {Graded("catch", "n100", [Counts EXCEPT !.n300 = n, !.smallHit = a, !.smallMiss = b, !.miss = c]) :
        n \in Plays, a, b, c \in 0 .. 3}
    \union
    {Graded("mania", h, [Counts EXCEPT !.geki = n, !.n300 = m, !.katu = a, ![h] = b, !.n50 = c, !.miss = d]) :
        h \in {"n100", "ok"}, n \in {0, 6, 19}, m, a, b, c, d \in 0 .. 1}

(* Three pages of a list of which new scores are set; what the API tells of *)
(* a score and what it tells later; a list of covers; the rows of a query.  *)
Added(lists) == {Append(lists, l) : l \in {Last(lists)} \union
                    {InsertAt(Last(lists), i, 10 + Len(lists)) : i \in 1 .. Len(Last(lists)) + 1}}
PageProbes == [alg : {"pages"}, limit : 1 .. 6,
               lists : UNION {UNION {Added(l) : l \in Added(<<[i \in 1 .. n |-> i]>>)} : n \in 0 .. 6}]

Facts(ar, stars, status, set) ==
    [id |-> 1, set |-> set, version |-> "Hard", status |-> status, stars |-> stars, bpm |-> 180, ar |-> ar,
     od |-> 8, cs |-> 4, hp |-> 5, length |-> 90, combo |-> 300]
Set(title, cover, fav) ==
    [artist |-> "artist", title |-> title, creator |-> "creator", cover |-> cover, fav |-> fav, plays |-> 0]
Api(stats, lazer, passed, map, set, score, pp) ==
    [id |-> 5, map |-> map, mapId |-> 1, setId |-> 0, set |-> set, lazer |-> lazer, build |-> Nil,
     score |-> score, total |-> 900, legacy |-> 0, accuracy |-> <<5, 6>>, rank |-> "A", stats |-> stats,
     passed |-> passed, mods |-> {"HD", "CL"}, combo |-> 30, pp |-> pp]
Some == [Counts EXCEPT !.n300 = 7, !.miss = 1]
ScoreProbes ==
    [alg : {"fill"}, api : {Api(Some, l, p, m, s, n, pp) :
                               l \in {TRUE, FALSE, Nil}, p \in BOOLEAN, n \in {0, 800}, pp \in {Nil, 90},
                               m \in {Nil, Facts(0, 5, "", 0), Facts(9, 0, "ranked", 3), Facts(9, 5, "loved", 3)},
                               s \in {Nil, Set("", "c1", 2), Set("title", "", 0), Set("title", "c1", 0)}},
     map : {Nil, Facts(9, 6, "ranked", 4)}, set : {Nil, Set("other", "c2", 7)},
     detail : {<<Nil, Nil, Nil>>, <<0, 70, 80>>, <<Nil, 70, 0>>}, calc : {Nil, [stars |-> 7, total |-> 95]}]
    \union
    [alg : {"counts"}, mode : {"osu", "taiko", "mania"}, passed : {TRUE},
     stats : {[Counts EXCEPT !.geki = g, !.n300 = n, !.katu = k, ![h] = a, !.n50 = b, !.miss = m] :
                 g, n, k, a, b, m \in 0 .. 2, h \in {"n100", "ok"}}]
    \union [alg : {"covers"}, images : {[i \in 1 .. 5 |-> IF i \in s THEN i ELSE Nil] : s \in SUBSET (1 .. 5)}]

RowOf(i, m, today, pp, fits) == [id |-> i, map |-> m, today |-> today, pp |-> pp, fits |-> fits]
Listed == {<<>>, <<RowOf(1, "m1", TRUE, FALSE, TRUE), RowOf(2, "m2", FALSE, FALSE, TRUE),
                   RowOf(3, "m1", TRUE, TRUE, FALSE), RowOf(4, "m1", TRUE, FALSE, TRUE)>>,
           <<RowOf(1, "m2", TRUE, TRUE, FALSE), RowOf(2, "m2", TRUE, FALSE, TRUE), RowOf(3, "m2", TRUE, TRUE, TRUE)>>}
RowProbes == [alg : {"rows"}, scores : Listed, order : {<<>>, <<1>>, <<4, 1>>, <<1, 2, 4>>, <<2>>, <<3, 1>>},
              c : {c \in [kind : {"best", "todayBest", "onMap"}, all : BOOLEAN, limit : 1 .. 3, end : {Nil, 2, 3},
                          filter : {"none", "other", "pp"}, map : {Nil, "m1"}] : c.end = Nil \/ c.limit <= c.end}]

Play(pp, ar, miss, mods) ==
    [pp |-> pp, ar |-> ar, miss |-> miss, mods |-> mods, title |-> {"blue", "sky"}]
FilterProbes ==
    [alg : {"filter"}, key : {"pp"}, wanted : {10000, 10050},
     values : {Play(pp, 900, 0, {}) : pp \in {Nil, 9949, 9950, 9951, 10000, 10049, 10050, 10051}}]
    \union [alg : {"filter"}, key : {"ar"}, wanted : {900}, values : {Play(Nil, ar, 0, {}) : ar \in 898 .. 902}]
    \union [alg : {"filter"}, key : {"miss"}, wanted : {0, 100}, values : {Play(Nil, 900, n, {}) : n \in {0, 100, 200}}]
    \union [alg : {"filter"}, key : {"mod"}, wanted : {<<>>, <<"HD">>, <<"HD", "HR">>, <<"HD", "HD">>, Nil},
            values : {Play(Nil, 900, 0, m) : m \in SUBSET {"HD", "HR", "DT"}}] 
    \union [alg : {"filter"}, key : {"title"}, wanted : SUBSET {"blue", "sky", "red"}, values : {Play(Nil, 900, 0, {})}]

(* Replays: before the song, in time, at the marker of lazer, broken.       *)
F(delta, marker, keys) == [k |-> "frame", delta |-> delta, marker |-> marker, keys |-> keys]
ReplayRecords == {F(-500, FALSE, {}), F(0, TRUE, {}), F(300, FALSE, {"k1"}), F(20, FALSE, {}), F(20, FALSE, {"k1", "k2"}),
                  F(20, FALSE, {"k1"}), [k |-> "seed"], [k |-> "bad"]}
ReplayProbes == [alg : {"replay"}, records : UNION {[1 .. n -> ReplayRecords] : n \in 3 .. 4}]
HitProbes == [alg : {"hits"}, od : {0, 80}, ar : {50, 110},
              keys : {SetToSortSeq(s, <) : s \in SUBSET {0, 40, 90, 150, 400}},
              notes : {SetToSortSeq(s, <) : s \in SUBSET {50, 100, 210, 260}} \union {<<100, 100>>}]

------------------------------------------------------------------------------
(* Beatmap files: the lines of a section that may be missing something.     *)
Point(time, beat, red) == [time |-> time, beat |-> beat, red |-> red]
Object(type, time, stop) == [x |-> 300, time |-> time, type |-> type, sound |-> 0, stop |-> stop,
                             path |-> 1, slides |-> 2, pixels |-> 100]
ObjectLines == {Object("circle", 700, Nil), [Object("circle", 200, Nil) EXCEPT !.x = 512],
                [Object("circle", 200, Nil) EXCEPT !.x = Nil], [Object("circle", 900, Nil) EXCEPT !.sound = Nil],
                Object("slider", 600, Nil), [Object("slider", 100, Nil) EXCEPT !.pixels = Nil],
                Object("spinner", 300, 250), Object("spinner", 300, Nil), Object("hold", 400, 800)}
Red == Point(0, 500, TRUE)
FileOf(mode, keys, points, objects) ==
    ("General" :> [mode |-> mode, previewTime |-> Nil]) @@ ("Metadata" :> <<>>)
    @@ ("Difficulty" :> [circleSize |-> keys, multiplier |-> 14]) @@ ("TimingPoints" :> points)
    @@ ("HitObjects" :> objects)
    @@ ("Events" :> <<[kind |-> 2, start |-> 900, end |-> 950], [kind |-> 2, start |-> 9, end |-> 9]>>)
Timings == {<<Red>>, <<Red, Point(500, -50, FALSE)>>, <<Point(650, 250, TRUE), Red>>,
            <<Point(Nil, 300, TRUE), Red>>, <<Red, Red, Red>>, <<Point(0, -50, FALSE)>>}
FileProbes == {[alg |-> "file", file |-> FileOf(m, k, t, o)] :
                  m \in {0, 1, 2, 3, 4, Nil}, k \in {0, 4}, t \in Timings,
                  o \in UNION {[1 .. n -> ObjectLines] : n \in 0 .. 2}}

(* Charts of a few objects, breaks and a silence.                           *)
Breaks == {<<>>, <<[start |-> 1, end |-> 6], [start |-> 2, end |-> 3]>>, <<[start |-> 6, end |-> 8]>>}
Charts == {<<>>, <<<<0, 9>>>>, <<<<0, 0>>, <<3, 4>>, <<9, 9>>>>, <<<<0, 5>>, <<1, 2>>, <<6, 9>>>>,
           <<<<2, 2>>, <<4, 4>>, <<6, 6>>, <<7, 7>>, <<9, 10>>>>}
SegmentProbes == [alg : {"segments"}, map : [previewTime : {Nil, -1, 3}, breaks : Breaks], spans : Charts,
                  count : 0 .. 3, duration : {1, 2}, requested : {<<>>, <<0>>, <<3, 4>>, <<3, 3>>, <<-1>>}]

Token(k, v) == [k |-> k, v |-> v]
ModTokens == {Token("DT", Nil), Token("DT", 120), Token("HT", 80), Token("DT", 90), Token("keys", 4), Token("keys", 7),
              Token("EZ", Nil), Token("HR", Nil), Token("IN", Nil), Token("HO", Nil), Token("NF", Nil),
              [k |-> "da", params |-> <<[of |-> "ar", v |-> 110], [of |-> "cs", v |-> 40]>>, rest |-> FALSE],
              [k |-> "da", params |-> <<[of |-> "ar", v |-> -110]>>, rest |-> FALSE]}
ModProbes == [alg : {"mods"}, tokens : BoundedSeq(ModTokens, 3), mode : {"osu", "mania"}]

(* A circle and sliders of the lengths about which they become hits.        *)
RedAt(time, beat, kiai) == [time |-> time, beat |-> beat, red |-> TRUE, meter |-> 4, kiai |-> kiai]
GreenAt(time, beat, kiai) == [RedAt(time, beat, kiai) EXCEPT !.red = FALSE]
Ob(type, start, end, pixels, spans, edges) ==
    [type |-> type, start |-> start, end |-> end, pixels |-> pixels, spans |-> spans, edges |-> edges, sound |-> {"clap"}]
Edges(n) == [i \in 1 .. n |-> IF i % 2 = 1 THEN {"clap"} ELSE {}]
TaikoMaps ==
    [points : {<<RedAt(0, 100, FALSE)>>, <<RedAt(0, 60, FALSE), GreenAt(100, -50, TRUE)>>}, multiplier : {14, 36},
     version : {7, 14}, tickRate : {10, 20, 40},
     objects : {<<Ob("circle", 50, 50, 0, 1, <<>>), Ob("slider", 120, 120, p, n, e)>> :
                   p \in {20, 70, 105, 280}, n \in {1, 2, 3}, e \in {<<>>, Edges(2), Edges(3), Edges(4)}}
               \union {<<Ob("slider", 90, 90, 70, 2, Edges(3)), Ob("slider", 120, 120, 70, 1, Edges(2)),
                        Ob("spinner", 300, 400, 0, 1, <<>>)>>}]
TaikoPoints == {RedAt(0, 100, FALSE), RedAt(-50, 100, TRUE), RedAt(200, 200, FALSE), RedAt(450, 60, TRUE), GreenAt(100, -50, TRUE),
                GreenAt(250, -100, FALSE), GreenAt(250, Nil, TRUE), GreenAt(300, 5, FALSE)}
InTime(points) == SetToSortSeq(points, LAMBDA a, b : a.time < b.time)
TwoVelocities == <<RedAt(0, 100, FALSE), GreenAt(60, -50, FALSE), GreenAt(110, -200, FALSE)>>
Reset == <<RedAt(0, 100, FALSE), GreenAt(60, -50, FALSE), RedAt(100, 60, FALSE), GreenAt(110, -50, FALSE)>>
TaikoProbes == [alg : {"edges"}, map : TaikoMaps]
               \union [alg : {"edges"}, map : {[m EXCEPT !.points = p] : m \in TaikoMaps, p \in {TwoVelocities, Reset}}]
               \union [alg : {"axis"}, points : {InTime(s) : s \in UNION {kSubset(n, TaikoPoints) : n \in 1 .. 3}},
                       end : {240, 600}, rows : {1, 3}]
               \union [alg : {"snap"}, points : {InTime(s) : s \in UNION {kSubset(n, TaikoPoints) : n \in 0 .. 2}},
                       time : {-60, -1, 0, 99, 100, 215, 460, 521}]

(* Mania charts: notes close together and held ones, an early start and a   *)
(* late one, and lengths about the cuts of the columns.                     *)
N(lane, start, end) == [lane |-> lane, start |-> start, end |-> end, long |-> end > start]
Mania(objects) == [i \in DOMAIN objects |-> N(objects[i][1], objects[i][2], objects[i][3])]
Scrolls == {RedAt(0, 100, FALSE), RedAt(-50, 200, FALSE), RedAt(250, 50, FALSE), GreenAt(100, -50, FALSE),
            GreenAt(250, -200, FALSE), GreenAt(300, 5, FALSE), RedAt(420, 100, FALSE)}
Lines == {<<RedAt(-300, 800, FALSE)>>, <<RedAt(0, 900, FALSE), RedAt(5750, 1800, FALSE), GreenAt(6000, -50, FALSE)>>,
          <<RedAt(6500, 900, FALSE), RedAt(9010, 900, FALSE)>>}
ManiaProbes ==
    [alg : {"lanes"}, points : {<<RedAt(0, 100, FALSE)>>, <<RedAt(90, 60, FALSE), RedAt(160, 400, FALSE)>>},
     objects : {Mania(<<<<2, 100, 100>>, <<1, 90, e>>, <<1, s, t>>, <<1, t, t>>>>) : e \in {90, 140}, s \in {90, 91, 115, 200}, t \in {201, 222}}]
    \union [alg : {"scroll"}, points : {InTime(s) : s \in UNION {kSubset(n, Scrolls) : n \in 0 .. 3}},
            native : BOOLEAN, constant : BOOLEAN]
    \union [alg : {"grid"}, points : Lines, divisor : {0, 3}, mods : SUBSET {"inverse", "holdOff"},
            objects : {Mania(<<<<0, s, s + d>>, <<1, s + 40, s + 40>>, <<0, s + d + 40, s + l>>>>) :
                          s \in {0, 4999, 5000, 6789}, d \in {0, 700}, l \in {900, 30000}}]
    \union [alg : {"grid"}, points : {<<>>}, divisor : {0}, mods : {{}},
            objects : {Mania(<<<<0, 100, e>>, <<0, e, e>>>>) :
                          e \in {58000, 59999, 60000, 119999, 120000, 299999, 359999, 360000, 599999, 600000}}]

------------------------------------------------------------------------------
Probes == CommandProbes \union GradeProbes \union PageProbes \union ScoreProbes \union RowProbes
          \union ModProbes \union FilterProbes \union ReplayProbes
          \union HitProbes \union FileProbes \union SegmentProbes \union TaikoProbes
          \union ManiaProbes

\* A property of an algorithm holds of each of its inputs.
Of(alg) == probe.alg = alg

(* The parts of a command agree (Commands).                                 *)
CommandsAreCoherent ==
    Of("command") => \A head \in probe.heads, ats \in {<<>>, <<7>>, <<7, 6>>} :
        LET tokens == IF head \in Cmd!Scoring THEN probe.in.tokens ELSE <<>>
            m == Cmd!Message(Frame(tokens, ats))
        IN  Cmd!CommandIsCoherent(Cmd!Parse(head, probe.in, m.mention), m.text, m.mention, m.user, Bindings)

(* A better judgement never lowers the grade, and what is told of a score   *)
(* and of a list of scores is shown: nothing of it lost, no row under the   *)
(* wrong place (Scores, ScorePipeline).  Two things are excused: of mania   *)
(* with 100s told as ok and no 200, the calculator is given the 100s twice; *)
(* and after a cover that could not be loaded, a card may have the cover of *)
(* a later score instead of its own, though "the cover of each score" is    *)
(* what a list is meant to show; never that of an earlier one, none twice.  *)
ScoresAreTold ==
    /\ Of("grade") => Sc!GradesFollowPlay(probe.s, probe.mode, probe.hundred)
    /\ Of("pages") => Sc!PagesMissNothing(probe.lists, probe.limit)
    /\ Of("fill") => Sc!NothingToldIsLost(probe.api, "osu", probe.map, probe.set,
                         Sc!ScoreDetail(probe.detail[1], probe.detail[2], probe.detail[3]), probe.calc)
    /\ Of("counts") => Sc!EveryJudgementCounts(Api(probe.stats, FALSE, probe.passed, Nil, Nil, 0, Nil), probe.mode)
    /\ Of("covers") => Sc!CoversMoveUp(probe.images)
    /\ Of("rows") => Pipe!RowsAreTheirs(probe.c, probe.scores, probe.order)

(* Of a condition and its opposite exactly one holds, of values that are    *)
(* numbers (Scores).                                                        *)
FiltersAreOpposed == Of("filter") => Sc!FiltersAreOpposed(probe.values, probe.key, probe.wanted)

(* Key presses meet the notes they are closest to, whatever the offset of   *)
(* the replay (HitTiming).                                                  *)
PressesMeetTheirNotes ==
    /\ Of("replay") => /\ Hit!OffsetsCancel(probe.records)
                       /\ Hit!ErrorsAreThePlays(probe.records, <<290, 330>>, 80, 90)
    /\ Of("hits") => Hit!MatchingIsStable(probe.keys, probe.notes, probe.od, probe.ar)

(* A beatmap is read in order, and one bad line disturbs no other           *)
(* (BeatmapFile).                                                           *)
FileIsReadInOrder == Of("file") => Map!FileIsReadInOrder(probe.file)

(* A preview shows parts that are played, with the mods that were typed     *)
(* (PreviewSegments).                                                       *)
SegmentsArePlayable ==
    /\ Of("segments") => Seg!SegmentsArePlayable(probe.map, probe.spans, probe.count, probe.duration, probe.requested)
    /\ Of("mods") => Seg!ModsReadInAnyOrder(probe.tokens, probe.mode)
    /\ Of("snap") => Seg!SnapsBack(probe.time, probe.points)

(* A taiko chart has the hits of its sliders, on one continuous axis; a     *)
(* mania chart has its notes in their lanes, beside their lines, and in     *)
(* their order (TaikoPreview, ManiaPreview).                                *)
ChartsAreSound ==
    /\ Of("edges") => Tai!EdgesSound(probe.map) /\ Tai!ScrollsAsWritten(probe.map, 6000000)
    /\ Of("axis") => LET unit == 60000
                         width == Tai!PositionAt(Tai!ScrollSegments(probe.points, probe.end, unit), probe.end)
                     IN  \A points \in {probe.points, Tai!ConstantSpeed(probe.points)} :
                            Tai!AxisIsContinuous(points, probe.end, unit, 300, width \div probe.rows + 1)
    /\ Of("lanes") => Man!LanesStayPlayable(probe.objects, probe.points)
    /\ Of("grid") => Man!NotesStayOnTheirLines(probe.objects, probe.points, probe.divisor, probe.mods)
    /\ Of("scroll") => Man!NothingOvertakes(Mania(<<<<0, 90, 90>>, <<1, 120, 300>>, <<0, 250, 250>>, <<1, 430, 450>>>>),
                                            probe.points, probe.constant, probe.native, 8, 500)
==============================================================================
