-------------------------------- MODULE Scores --------------------------------
(***************************************************************************)
(* What becomes of a score of the osu! API (osubot-core/src/api): its grade *)
(* and accuracy by the rules of the stable client, its conversion, the      *)
(* details asked for afterwards, its pp and stars, the conditions it is     *)
(* matched against (osubot/src/score_filter.rs), the cover of its card      *)
(* (osubot-render).  Numbers that are fractions in the code are counted in  *)
(* hundredths; an accuracy is the pair of what was earned and what could    *)
(* be, in sixths of a judgement.                                            *)
(***************************************************************************)
EXTENDS Integers, Sequences, FiniteSets, Functions, Ordering
CONSTANT Nil

Least(a, b) == IF a < b THEN a ELSE b
NonZero(a, b) == IF a # 0 THEN a ELSE b
Positive(a, b) == IF a # Nil /\ a > 0 THEN a ELSE b
Or(a, b) == IF a = Nil THEN b ELSE a
AboveZero(v) == IF v > 0 THEN v ELSE Nil

------------------------------------------------------------------------------
(* Grades.  s counts judgements: geki, n300, katu, n100, n50, miss, ok (the *)
(* name of a 100 among the counts of lazer), and the ticks of catch.        *)
Hundreds(s) == NonZero(s.n100, s.ok)
Caught(s) == s.n300 + s.largeHit + s.smallHit
Total(s, mode) ==
    CASE mode = "osu"   -> s.n300 + Hundreds(s) + s.n50 + s.miss
      [] mode = "taiko" -> s.n300 + Hundreds(s) + s.miss
      [] mode = "catch" -> Caught(s) + s.largeMiss + s.smallMiss + s.miss
      [] mode = "mania" -> s.geki + s.n300 + s.katu + Hundreds(s) + s.n50 + s.miss

Worth(s, mode) ==
    CASE mode = "osu"   -> 6 * s.n300 + 2 * Hundreds(s) + s.n50
      [] mode = "taiko" -> 6 * s.n300 + 3 * Hundreds(s)
      [] mode = "catch" -> 6 * Caught(s)
      [] mode = "mania" -> 6 * (s.geki + s.n300) + 4 * s.katu + 2 * Hundreds(s) + s.n50

NoAccuracy == <<0, 1>>
StableAccuracy(s, mode, passed) ==
    IF passed /\ Total(s, mode) > 0 THEN <<Worth(s, mode), 6 * Total(s, mode)>> ELSE NoAccuracy

\* How many of the cuts, in percent, lie at or above part/whole; from 1.
Tier(part, whole, cuts) == 1 + Cardinality({i \in DOMAIN cuts : part * 100 <= whole * cuts[i]})
Clean  == <<"S", "A", "B", "C", "D">>
Flawed == <<"A", "B", "C", "C", "D">>

\* Slip: a score of many 50s and no miss is taken for a clean one.
LettersOfMissOnly(s, mode) ==
    IF mode \in {"osu", "taiko"} /\ s.miss = 0 THEN Flawed ELSE Clean

Letters(s, mode) ==
    IF mode \in {"osu", "taiko"} /\ s.miss > 0 THEN Flawed ELSE Clean
Cuts(mode) ==
    CASE mode \in {"osu", "taiko"} -> <<90, 80, 70, 60>>
      [] mode = "catch" -> <<98, 94, 90, 85>>
      [] mode = "mania" -> <<95, 90, 80, 70>>

StableGrade(s, mode) ==
    LET total == Total(s, mode)
        part  == CASE mode \in {"osu", "taiko"} -> s.n300
                   [] mode = "catch" -> Caught(s)
                   [] mode = "mania" -> Worth(s, mode)
        whole == IF mode = "mania" THEN 6 * total ELSE total
        tier  == Tier(part, whole, Cuts(mode))
    IN  CASE part = whole -> "X"
          [] part # whole /\ mode = "osu" /\ tier = 1 /\ s.n50 * 100 > total -> "A"
          [] OTHER -> Letters(s, mode)[tier]

Silver == [S |-> "SH", X |-> "XH"]
StableRank(s, mode, passed, hidden) ==
    IF ~passed THEN "F"
    ELSE LET grade == StableGrade(s, mode)
         IN  IF hidden /\ grade \in DOMAIN Silver THEN Silver[grade] ELSE grade

(* A judgement traded for the next better one never lowers the grade or the *)
(* accuracy, and the best grade is for full accuracy only.  hundred is the  *)
(* count 100s are in.                                                       *)
Chain(mode, hundred) ==
    CASE mode = "osu"   -> <<"miss", "n50", hundred, "n300">>
      [] mode = "taiko" -> <<"miss", hundred, "n300">>
      [] mode = "catch" -> <<"smallMiss", "smallHit">>
      [] mode = "mania" -> <<"miss", "n50", hundred, "katu", "n300", "geki">>
GradeOrder == <<"D", "C", "B", "A", "S", "X">>
Height(grade) == CHOOSE i \in DOMAIN GradeOrder : GradeOrder[i] = grade

GradesFollowPlay(s, mode, hundred) ==
    LET chain == Chain(mode, hundred)
    IN  Total(s, mode) > 0 =>
          /\ StableGrade(s, mode) = "X" <=> Worth(s, mode) = 6 * Total(s, mode)
          /\ \A i \in 1 .. Len(chain) - 1 : s[chain[i]] > 0 =>
                LET better == [s EXCEPT ![chain[i]] = @ - 1, ![chain[i + 1]] = @ + 1]
                IN  /\ Height(StableGrade(s, mode)) <= Height(StableGrade(better, mode))
                    /\ Worth(s, mode) <= Worth(better, mode)

------------------------------------------------------------------------------
(* api_score_to_score.                                                      *)
IsLazer(api) == Or(api.lazer, Or(api.build, 0) > 0)
ScoreValue(api) ==
    CASE api.score > 0 -> api.score
      [] api.score <= 0 /\ IsLazer(api)  -> Or(Positive(api.total, api.legacy), 0)
      [] api.score <= 0 /\ ~IsLazer(api) -> Or(Positive(api.legacy, api.total), 0)

ShownCounts(s, mode) ==
    [s EXCEPT !.katu = IF mode = "mania" THEN NonZero(s.katu, s.ok) ELSE s.katu,
              !.n100 = IF mode = "catch" THEN NonZero(s.largeHit, s.n100) ELSE NonZero(s.ok, s.n100),
              !.n50  = IF mode = "catch" THEN NonZero(s.smallHit, s.n50) ELSE s.n50]

NoMap == [id |-> 0, set |-> 0, version |-> "", status |-> "", stars |-> 0, bpm |-> 0, ar |-> 0,
          od |-> 0, cs |-> 0, hp |-> 0, length |-> 0, combo |-> 0]
NoSet == [artist |-> "", title |-> "", creator |-> "", cover |-> "", fav |-> 0, plays |-> 0]

Converted(api, mode) ==
    LET lazer == IsLazer(api)
        map == Or(api.map, [NoMap EXCEPT !.id = api.mapId, !.set = api.setId])
        set == Or(api.set, NoSet)
        stable == StableAccuracy(api.stats, mode, api.passed)
    IN  [id |-> api.id, map |-> map, lazer |-> lazer, passed |-> api.passed,
         artist |-> set.artist, title |-> set.title, creator |-> set.creator, cover |-> set.cover,
         fav |-> AboveZero(set.fav), plays |-> AboveZero(set.plays),
         value |-> ScoreValue(api),
         accuracy |-> IF ~lazer /\ stable[1] > 0 THEN stable ELSE api.accuracy,
         rank |-> CASE lazer /\ api.passed  -> api.rank
                    [] lazer /\ ~api.passed -> "F"
                    [] ~lazer -> StableRank(api.stats, mode, api.passed,
                                            api.mods \intersect {"HD", "FL", "PF"} # {}),
         mods |-> IF lazer THEN api.mods ELSE api.mods \ {"CL"},
         combo |-> api.combo, pp |-> api.pp, breakdown |-> Nil, perfect |-> Nil,
         counts |-> ShownCounts(api.stats, mode)]

------------------------------------------------------------------------------
(* osu_api.rs.  A page or an answer is Nil when the request failed, and     *)
(* "404" when there is no such thing.                                       *)

\* get_user_best: pages of the list as it is when each is asked for, until one is short.
PageSize == 3          \* 100 in the code
\* Slip: the pages are counted in full ones.
PageFromItsNumber(list, offset, fetch) ==
    LET start == (offset \div fetch) * fetch
    IN  SubSeq(list, start + 1, Least(start + fetch, Len(list)))

Page(list, offset, fetch) == SubSeq(list, offset + 1, Least(offset + fetch, Len(list)))

NextPage(got, list, limit) ==
    LET have  == got.scores
        fetch == Least(limit - Len(have), PageSize)
        page  == Page(list, Len(have), fetch)
    IN  IF ~got.more THEN got
        ELSE [scores |-> have \o page,
              more |-> Len(page) = fetch /\ Len(have) + Len(page) < limit]
BestScores(lists, limit) ==
    LET got[p \in 0 .. Len(lists)] ==
          IF p = 0 THEN [scores |-> <<>>, more |-> limit > 0]
          ELSE NextPage(got[p - 1], lists[p], limit)
    IN  got[Len(lists)].scores

(* The player sets new scores while the pages are asked for: each may shift *)
(* one of the old into two pages and take the place of one at the end, but  *)
(* no old score before that is missed; of a list that stays as it is, the   *)
(* best are given, each once.                                               *)
PagesMissNothing(lists, limit) ==
    LET got == BestScores(lists, limit)
        old == lists[1]
        added == Cardinality(UNION {Range(lists[i]) : i \in DOMAIN lists}) - Len(old)
    IN  /\ \A i \in 1 .. Least(limit - added, Len(old)) : old[i] \in Range(got)
        /\ added = 0 => got = SubSeq(old, 1, Least(limit, Len(old)))

\* backfill_score_details: what is missing of the map, of its set, and the value.
Incomplete(map) ==
    map.id > 0 /\ (0 \in {map.ar, map.od, map.stars, map.combo} \/ map.status = "")
MapFilled(score, map) ==
    IF ~Incomplete(score.map) \/ map = Nil THEN score
    ELSE [score EXCEPT !.map =
            [map EXCEPT !.id = score.map.id,
                        !.stars = IF score.map.stars > 0 THEN score.map.stars ELSE @,
                        !.version = IF score.map.version = "" THEN @ ELSE score.map.version,
                        !.status = IF score.map.status = "" THEN @ ELSE score.map.status,
                        !.set = IF score.map.set = 0 THEN @ ELSE score.map.set]]
SetFilled(score, set) ==
    IF ~(score.map.set > 0 /\ "" \in {score.artist, score.title, score.cover}) \/ set = Nil THEN score
    ELSE [score EXCEPT !.artist = set.artist, !.title = set.title, !.creator = set.creator,
                       !.cover = IF @ = "" THEN set.cover ELSE @,
                       !.fav = Or(@, AboveZero(set.fav)), !.plays = Or(@, AboveZero(set.plays))]
ValueFilled(score, detail) ==
    IF score.value = 0 /\ score.id > 0 /\ Or(detail, 0) > 0 THEN [score EXCEPT !.value = detail] ELSE score
Backfilled(score, map, set, detail) == ValueFilled(SetFilled(MapFilled(score, map), set), detail)

\* fetch_score_detail: the first of the three that is there; zero counts as none.
ScoreDetail(total, score, legacy) == AboveZero(Or(Or(Or(total, score), legacy), 0))

------------------------------------------------------------------------------
(* pp.rs: calc is what the calculator gives (Nil when the map   *)
(* could not be had or read), perfect the pp of a perfect play when asked.  *)
CalculatorInput(score) ==
    [n300 |-> IF score.passed THEN score.counts.n300 ELSE 0,
     n100 |-> score.counts.n100, n50 |-> score.counts.n50, geki |-> score.counts.geki,
     katu |-> score.counts.katu, miss |-> score.counts.miss, combo |-> score.combo,
     mods |-> score.mods, lazer |-> score.lazer]
Enriched(score, calc, perfect) ==
    IF score.map.id <= 0 THEN score
    ELSE [score EXCEPT !.breakdown = calc,
                       !.perfect = IF Or(perfect, 0) > 0 THEN perfect ELSE @,
                       !.map.stars = IF calc = Nil THEN @ ELSE calc.stars,
                       !.pp = IF @ = Nil /\ calc # Nil /\ calc.total > 0 THEN calc.total ELSE @]

(* What the API told of a score is not lost on its way to the card: the     *)
(* details asked for later fill what is missing, and asking once more adds  *)
(* nothing; a request that fails keeps none of the others from filling      *)
(* theirs; only the calculator replaces the stars.                          *)
NothingToldIsLost(api, mode, map, set, detail, calc) ==
    LET score  == Converted(api, mode)
        filled == Backfilled(score, map, set, detail)
        shown  == Enriched(filled, calc, Nil)
        keeps(told, kept, none) == told # none => kept = told
    IN  /\ shown.map.id = score.map.id /\ keeps(score.value, shown.value, 0)
        /\ keeps(score.pp, shown.pp, Nil) /\ keeps(score.fav, shown.fav, Nil)
        /\ \A k \in {"version", "status"} : keeps(score.map[k], filled.map[k], "")
        /\ keeps(score.map.set, filled.map.set, 0) /\ keeps(score.map.stars, filled.map.stars, 0)
        /\ keeps(score.cover, filled.cover, "") /\ (filled.map.stars > 0 => shown.map.stars > 0)
        /\ Backfilled(filled, map, set, detail) = filled
        /\ set # Nil /\ filled.map.set > 0 => "" \notin {filled.artist, filled.title, filled.cover}
        /\ (shown.rank = "F") <=> ~api.passed

(* The calculator is given every judgement of a play once.  One kind of     *)
(* play is not: of mania, with 100s told as ok and no 200 - its 100s are    *)
(* also taken for the 200s.                                                 *)
EveryJudgementCounts(api, mode) ==
    LET given == CalculatorInput(Converted(api, mode))
        sum == given.n300 + given.n100 + given.miss
               + (IF mode = "taiko" THEN 0 ELSE given.n50)
               + (IF mode = "mania" THEN given.geki + given.katu ELSE 0)
    IN  api.passed /\ mode # "catch" /\ ~(mode = "mania" /\ api.stats.katu = 0 /\ api.stats.ok > 0)
           => sum = Total(api.stats, mode)

------------------------------------------------------------------------------
(* Conditions.  Stars, acc and the map's values have a tolerance of 0.01,   *)
(* pp and bpm of 0.5; an integer is equal within 1.                         *)
Tolerance(key) == IF key \in {"pp", "bpm"} THEN 50 ELSE 1

\* Slip: what is off by the tolerance is neither equal nor different.
ComparesBeyond(a, b, op, tolerance) ==
    LET off == IF a > b THEN a - b ELSE b - a
    IN  CASE op \in {"=", "=="} -> off < tolerance
          [] op = "!=" -> off > tolerance
          [] op = "<"  -> a < b    [] op = "<=" -> a <= b
          [] op = ">"  -> a > b    [] op = ">=" -> a >= b

Compares(a, b, op, tolerance) ==
    LET off == IF a > b THEN a - b ELSE b - a
    IN  CASE op \in {"=", "=="} -> off < tolerance
          [] op = "!=" -> off >= tolerance
          [] op = "<"  -> a < b    [] op = "<=" -> a <= b
          [] op = ">"  -> a > b    [] op = ">=" -> a >= b
Orders == {"<", "<=", ">", ">="}

\* A value of mods is a sequence, Nil when a part of it is of an odd length; NM is empty.
ModsMatch(mods, op, wanted) ==
    LET subset == Range(wanted) \subseteq mods
    IN  CASE op \in Orders -> TRUE
          [] op \notin Orders /\ wanted = Nil -> FALSE
          [] op = "="  /\ wanted # Nil -> subset
          [] op = "==" /\ wanted # Nil -> subset /\ Cardinality(mods) = Len(wanted)
          [] op = "!=" /\ wanted # Nil -> ~subset

TextMatches(field, op, words) ==
    CASE op \in Orders -> TRUE
      [] op \in {"=", "=="} -> words \subseteq field
      [] op = "!=" -> ~(words \subseteq field)

Numeric == {"miss", "combo", "pp", "score", "acc", "ar", "od", "cs", "hp", "star", "bpm"}
Textual == {"title", "artist", "name"}
\* values: the score's numbers by key (after its mods), mods, and words of its texts.
Satisfies(values, f) ==
    CASE f.key \in Numeric -> /\ f.value # Nil /\ values[f.key] # Nil
                              /\ Compares(values[f.key], f.value, f.op, Tolerance(f.key))
      [] f.key = "mod"     -> ModsMatch(values.mods, f.op, f.value)
      [] f.key \in Textual -> TextMatches(values[f.key], f.op, f.value)
      [] OTHER -> TRUE
\* No key, no operator, or nothing behind it, but for "mod=".
Malformed(f) == f.key = Nil \/ f.op = Nil \/ (f.empty /\ ~(f.key = "mod" /\ f.op = "="))
MatchesFilters(values, filters) ==
    \A i \in DOMAIN filters : ~Malformed(filters[i]) /\ Satisfies(values, filters[i])

(* Of a condition and its opposite exactly one holds, for every value a     *)
(* score has; == is never wider than =; and neither holds of a pp that is   *)
(* not known, or against mods that cannot be read.                        *)
Opposite(op) == CASE op = "=" -> "!=" [] op = "==" -> "!=" [] op = "<" -> ">=" [] op = ">" -> "<="
FiltersAreOpposed(values, key, wanted) ==
    LET holds(op) == MatchesFilters(values, <<[key |-> key, op |-> op, value |-> wanted, empty |-> FALSE]>>)
        worded == key = "mod" \/ key \in Textual
        known == wanted # Nil /\ (worded \/ values[key] # Nil)
        ops == IF worded THEN {"="} ELSE {"=", "==", "<", ">"}
    IN  /\ \A op \in ops : IF known THEN holds(op) # holds(Opposite(op))
                           ELSE ~holds(op) /\ ~holds(Opposite(op))
        /\ holds("==") => holds("=")

------------------------------------------------------------------------------
(* render_score_list_card: the covers that could be loaded, in order; card  *)
(* i takes the i-th of them.                                                *)
CoverUris(images) == Kept(images, {i \in DOMAIN images : images[i] # Nil})
CoverOfCard(images, i) == IF i \in DOMAIN CoverUris(images) THEN CoverUris(images)[i] ELSE Nil

(* Cards that could be loaded give their covers away from the first one     *)
(* that could not: a card has its own cover, or one of a card after it, or  *)
(* none; and no cover is shown twice.                                       *)
CoversMoveUp(images) ==
    LET own(i) == {j \in i .. Len(images) : images[j] # Nil /\ images[j] = CoverOfCard(images, i)}
    IN  \A i \in DOMAIN images :
           /\ CoverOfCard(images, i) # Nil => own(i) # {}
           /\ (\A j \in 1 .. i : images[j] # Nil) => CoverOfCard(images, i) = images[i]
           /\ \A j \in 1 .. i - 1 : CoverOfCard(images, i) # Nil => CoverOfCard(images, i) # CoverOfCard(images, j)
==============================================================================
