--------------------------- MODULE PreviewSegments ---------------------------
(***************************************************************************)
(* What a preview shows (osubot-beatmap-preview/src/time_selection.rs) and  *)
(* the mods it is shown with (mods.rs).  spans are the <<start, end>> of    *)
(* the objects, in order; times are in units of the checked instance.       *)
(***************************************************************************)
EXTENDS Integers, Sequences, SequencesExt, FiniteSetsExt
CONSTANTS Nil, BreakGap

------------------------------------------------------------------------------
\* infer_break_periods: where no object is for long.
Gaps(spans) ==
    LET ended(i) == Max({spans[j][2] : j \in 1 .. i})
        after == SelectSeq([i \in 1 .. Len(spans) - 1 |-> i],
                           LAMBDA i : spans[i + 1][1] - ended(i) >= BreakGap)
    IN  [g \in DOMAIN after |-> [start |-> ended(after[g]), end |-> spans[after[g] + 1][1]]]

\* Slip: a period inside the one before it shortens that one.
JoinedToLast(last, period) == [last EXCEPT !.end = period.end]

Joined(last, period) == [last EXCEPT !.end = Max({@, period.end})]

MergePeriods(periods) ==
    LET inOrder == SortSeq(periods, LAMBDA a, b : a.start < b.start \/ (a.start = b.start /\ a.end < b.end))
    IN  FoldLeft(LAMBDA merged, p :
                    IF merged # <<>> /\ p.start <= merged[Len(merged)].end
                    THEN Append(Front(merged), Joined(Last(merged), p)) ELSE Append(merged, p),
                 <<>>, inOrder)

\* subtract_periods; a period that ends before the chart begins takes nothing.
SubtractPeriods(start, end, forbidden) ==
    LET step(s, p) ==
            IF s.cursor >= end \/ p.end <= s.cursor THEN s
            ELSE [cursor |-> Max({s.cursor, p.end}),
                  kept |-> IF p.start > s.cursor
                           THEN Append(s.kept, <<s.cursor, Min({p.start, end})>>) ELSE s.kept]
        all == FoldLeft(step, [cursor |-> start, kept |-> <<>>], forbidden)
        kept == IF all.cursor < end THEN Append(all.kept, <<all.cursor, end>>) ELSE all.kept
    IN  SelectSeq(kept, LAMBDA k : k[2] > k[1])

ChartEnd(spans) == Max({spans[i][2] : i \in DOMAIN spans})
ValidStarts(spans, breaks, duration) ==
    LET playable == SubtractPeriods(spans[1][1], ChartEnd(spans), MergePeriods(breaks \o Gaps(spans)))
        long == SelectSeq(playable, LAMBDA p : p[2] - duration >= p[1])
    IN  [i \in DOMAIN long |-> <<long[i][1], long[i][2] - duration>>]

------------------------------------------------------------------------------
PreviewTime(map, spans) ==
    IF map.previewTime = Nil THEN spans[1][1]
    ELSE IF map.previewTime < 0 THEN spans[1][1] ELSE map.previewTime

\* build_forced_times: Nil when a time is negative, or they are too many.
ForcedTimes(map, spans, count, requested) ==
    LET asked == ToSet(requested)
    IN  IF (\E t \in asked : t < 0) \/ Cardinality(asked) > count THEN Nil
        ELSE IF Cardinality(asked) < count THEN asked \union {PreviewTime(map, spans)} ELSE asked

Overlap(s, t, duration) == s < t + duration /\ s + duration > t
FreeOf(chosen, s, duration) == \A t \in chosen : ~Overlap(s, t, duration)

\* The tries at random find some starts that are apart, and maybe not enough.
FoundAtRandom(forced, valid, count, duration) ==
    LET starts == UNION {valid[i][1] .. valid[i][2] : i \in DOMAIN valid}
        some == UNION {kSubset(n, starts) : n \in 0 .. count - Cardinality(forced)}
    IN  {forced \union s : s \in {s \in some : \A t \in s : FreeOf((s \ {t}) \union forced, t, duration)}}

\* nearest_valid_start: the earlier interval where two are as near.
NearestStart(time, valid) ==
    LET near == [i \in DOMAIN valid |-> IF time < valid[i][1] THEN valid[i][1]
                                        ELSE IF time > valid[i][2] THEN valid[i][2] ELSE time]
        away(i) == IF near[i] < time THEN time - near[i] ELSE near[i] - time
    IN  near[CHOOSE i \in DOMAIN valid : \A j \in DOMAIN valid :
                away(i) < away(j) \/ (away(i) = away(j) /\ i <= j)]

Filled(chosen, spans, valid, count, duration) ==
    LET candidates == SetToSortSeq({NearestStart(spans[i][1], valid) : i \in DOMAIN spans}, <)
    IN  FoldLeft(LAMBDA c, s : IF Cardinality(c) < count /\ FreeOf(c, s, duration) THEN c \union {s} ELSE c,
                 chosen, candidates)

\* PreviewTimeSelector::choose: the sets of starts it may come to, each in order.
Choose(map, spans, count, duration, requested) ==
    LET forced == ForcedTimes(map, spans, count, requested)
        valid == ValidStarts(spans, map.breaks, duration)
        found == IF valid = <<>> THEN {forced} ELSE FoundAtRandom(forced, valid, count, duration)
        filled(c) == IF valid = <<>> THEN c ELSE Filled(c, spans, valid, count, duration)
        segment(s) == [start |-> s, preview |-> s = PreviewTime(map, spans),
                       breaks |-> SelectSeq(map.breaks, LAMBDA b : b.start < s + duration /\ b.end > s)]
        inOrder(c) == LET starts == SetToSortSeq(c, <) IN [i \in DOMAIN starts |-> segment(starts[i])]
    IN  IF count = 0 \/ spans = <<>> THEN {} ELSE IF forced = Nil THEN {}
        ELSE {inOrder(filled(c)) : c \in found}

\* snap_to_beat_grid, with whole beat lengths.
SnapToBeat(time, points) ==
    LET red == SelectSeq(points, LAMBDA p : p.red /\ p.beat > 0 /\ p.time <= time)
        snapped == IF red = <<>> THEN time
                   ELSE Last(red).time + ((time - Last(red).time) \div Last(red).beat) * Last(red).beat
    IN  IF snapped < 0 THEN 0 ELSE snapped

(* A chart that is moved back to begin on the grid of the last red point    *)
(* keeps the object it was moved to, loses less than a beat before it, and  *)
(* stays where it is when moved again.                                      *)
SnapsBack(time, points) ==
    LET start == SnapToBeat(time, points)
        beats == {p.beat : p \in {p \in ToSet(points) : p.red}}
    IN  /\ 0 <= start /\ start <= Max({0, time}) /\ SnapToBeat(start, points) = start
        /\ time <= start \/ \E b \in beats : time - start < b
        /\ start \in {0, time} \/ \E p \in ToSet(points) : p.red /\ p.time <= start /\ (start - p.time) % p.beat = 0

------------------------------------------------------------------------------
(* A segment that was not asked for lies in the chart, away from the other  *)
(* segments, and no part of it is a break of the map or a silence longer    *)
(* than BreakGap; and there is one whenever one more fits beside the others *)
(* where an object starts.                                                  *)
Silences(spans) ==
    {s \in [start : {spans[i][2] : i \in DOMAIN spans}, end : {spans[i][1] : i \in DOMAIN spans}] :
        /\ s.end - s.start >= BreakGap
        /\ \A i \in DOMAIN spans : spans[i][1] >= s.end \/ spans[i][2] <= s.start}
SegmentsArePlayable(map, spans, count, duration, requested) ==
    LET forced == ForcedTimes(map, spans, count, requested)
        clear(s) == /\ spans[1][1] <= s /\ s + duration <= ChartEnd(spans)
                    /\ \A p \in ToSet(map.breaks) \union Silences(spans) : s >= p.end \/ s + duration <= p.start
    IN  \A segments \in Choose(map, spans, count, duration, requested) :
           LET starts == {segments[i].start : i \in DOMAIN segments}
           IN  /\ \A s \in starts \ forced : clear(s) /\ FreeOf(starts \ {s}, s, duration)
               /\ Cardinality(starts) < count =>
                     \A i \in DOMAIN spans : clear(spans[i][1]) => ~FreeOf(starts, spans[i][1], duration)

------------------------------------------------------------------------------
\* parse_one_token: what a token says of the settings; Nil is an error.  A speed
\* is in hundredths, a difficulty in tenths; a speed or a number of keys out of
\* its range is refused, a token nobody knows is skipped.
DifficultyRange == [cs |-> 0 .. 110, ar |-> -100 .. 110, od |-> 0 .. 110, hp |-> 0 .. 110]
NoMods == [speed |-> 100, flags |-> {}, keys |-> <<>>, da |-> [p \in {} |-> 0]]

ParseToken(s, t) ==
    CASE s = Nil -> Nil
      [] s # Nil /\ t.k = "da" -> IF t.params = <<>> \/ t.rest THEN Nil
                       ELSE FoldLeft(LAMBDA a, p :
                                IF a = Nil THEN Nil ELSE IF p.v \notin DifficultyRange[p.of] THEN Nil
                                ELSE [a EXCEPT !.da = [x \in DOMAIN @ \union {p.of} |->
                                                          IF x = p.of THEN p.v ELSE @[x]]], s, t.params)
      [] s # Nil /\ t.k \in {"DT", "HT"} ->
            LET v == IF t.v # Nil THEN t.v ELSE IF t.k = "DT" THEN 150 ELSE 75
            IN  IF v \notin (IF t.k = "DT" THEN 101 .. 200 ELSE 50 .. 99) THEN Nil
                ELSE [s EXCEPT !.speed = v, !.flags = @ \union {t.k}]
      [] s # Nil /\ t.k = "keys" -> IF t.v \notin 1 .. 10 THEN Nil ELSE [s EXCEPT !.keys = Append(@, t.v)]
      [] s # Nil /\ t.k \in {"EZ", "HR", "HD", "TC", "SW", "CS", "DS", "IN", "HO"} ->
            [s EXCEPT !.flags = @ \union {t.k}]
      [] OTHER -> s
ParseMods(tokens) == FoldLeft(ParseToken, NoMods, tokens)

\* validate_mods: the pairs that exclude each other.
Conflicts(mode) ==
    {{"DT", "HT"}, {"EZ", "HR"}, {"HD", "TC"}} \union (IF mode = "mania" THEN {{"IN", "HO"}} ELSE {})
Valid(s, mode) ==
    /\ \A c \in Conflicts(mode) : ~(c \subseteq s.flags)
    /\ Len(s.keys) <= 1
    /\ mode = "osu" /\ DOMAIN s.da # {} => s.flags \intersect {"EZ", "HR"} = {}

(* Mods that are accepted mean the same in whatever order they are typed,   *)
(* unless a speed or a difficulty is given twice; and they never ask for    *)
(* two opposites: fast is DT and slow is HT.                                *)
Accepted(tokens, mode) == ParseMods(tokens) # Nil /\ Valid(ParseMods(tokens), mode)
GivenTwice(tokens) ==
    \E i, j \in DOMAIN tokens : i < j /\ (tokens[i].k = tokens[j].k /\ tokens[i].k \in {"DT", "HT", "da"})
ModsReadInAnyOrder(tokens, mode) ==
    LET s == ParseMods(tokens)
        turned == Reverse(tokens)
    IN  /\ Accepted(tokens, mode) <=> Accepted(turned, mode)
        /\ Accepted(tokens, mode) =>
              /\ GivenTwice(tokens) \/ ParseMods(turned) = s
              /\ s.speed > 100 <=> "DT" \in s.flags
              /\ s.speed < 100 <=> "HT" \in s.flags
===============================================================================
