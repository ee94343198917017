---------------------------- MODULE TaikoPreview ----------------------------
(***************************************************************************)
(* A standard map as a taiko map (osubot-beatmap-preview/src/convert/       *)
(* taiko_conv.rs) and the time axis of a taiko chart (taiko/timing.rs,      *)
(* png.rs, gif.rs).  Times are milliseconds, multipliers and tick rates in  *)
(* tenths; the velocity v of sliders is held as the length -100 / v that    *)
(* the file gives.  A point without a scroll speed of its own has beat Nil. *)
(* Products of fractions are exact: what the code loses to floats is not    *)
(* modelled.                                                                *)
(***************************************************************************)
EXTENDS Integers, Sequences, SequencesExt, FiniteSetsExt
CONSTANT Nil
LOCAL InOrder(S) == SortSeq(FoldSet(LAMBDA x, seq : Append(seq, x), <<>>, S), <)

\* timing_beat_length_at, taiko_slider_velocity_at, meter_at, kiai_at.
At(points, time) ==
    FoldLeft(LAMBDA s, p : [beat |-> IF p.red THEN p.beat ELSE s.beat,
                            green |-> IF p.red THEN -100 ELSE IF p.beat = Nil THEN s.green
                                      ELSE IF p.beat < 0 THEN p.beat ELSE s.green,
                            meter |-> IF p.red THEN p.meter ELSE s.meter, kiai |-> p.kiai],
             [beat |-> 500, green |-> -100, meter |-> 4, kiai |-> FALSE],
             SelectSeq(points, LAMBDA p : p.time <= time))

------------------------------------------------------------------------------
(* taiko_slider_conversion_values, taiko_should_convert_slider_to_hits.     *)
Clamp(n, low, high) == Max({low, Min({n, high})})
Slider(map, h) ==
    LET at == At(map.points, h.start)
        adjusted == at.beat * Clamp(-at.green, 10, 10000)
        num == h.pixels * h.spans * adjusted             \* num / den milliseconds
        den == 1000 * Clamp(map.multiplier, 4, 36)
        beat == IF map.version >= 8 THEN 100 * at.beat ELSE adjusted   \* hundredths
        duration == num \div den
        tick == <<beat, 10 * Clamp(map.tickRate, 5, 80)>>
        span == <<duration, h.spans>>
    IN  [duration |-> duration,
         spacing |-> IF tick[1] * span[2] <= span[1] * tick[2] THEN tick ELSE span,
         short |-> num * 100 < 2 * beat * den]

\* Slip: the sounds of the edges are read from the second.
SoundAfterTheFirst(sounds, k) == sounds[((k + 1) % Len(sounds)) + 1]

SoundOf(sounds, k) == sounds[(k % Len(sounds)) + 1]

\* taiko_convert_slider: hits while they are within the slider and an eighth.
AsHits(h, slider) ==
    LET sounds == IF h.edges = <<>> THEN <<h.sound>> ELSE h.edges
        count == (slider.duration * slider.spacing[2]) \div slider.spacing[1]
        more == IF 8 * (slider.duration * slider.spacing[2] - count * slider.spacing[1]) >= 7 * slider.spacing[1]
                THEN count + 1 ELSE count
        at(k) == h.start + (k * slider.spacing[1]) \div slider.spacing[2]
    IN  [k \in 1 .. more + 1 |-> [start |-> at(k - 1), end |-> at(k - 1), type |-> "hit",
                                  sound |-> SoundOf(sounds, k - 1)]]
ConvertSlider(h, slider) ==
    IF slider.spacing[1] > 0 /\ slider.short THEN AsHits(h, slider)
    ELSE <<[start |-> h.start, end |-> h.start + slider.duration, type |-> "roll", sound |-> h.sound]>>
ConvertObject(map, h) ==
    CASE h.type = "slider" -> ConvertSlider(h, Slider(map, h))
      [] h.type = "spinner" -> <<[start |-> h.start, end |-> h.end, type |-> "swell", sound |-> h.sound]>>
      [] OTHER -> <<[start |-> h.start, end |-> h.start, type |-> "hit", sound |-> h.sound]>>
TaikoObjects(map) ==
    SortSeq(FlattenSeq([i \in DOMAIN map.objects |-> ConvertObject(map, map.objects[i])]),
            LAMBDA a, b : a.start < b.start \/ (a.start = b.start /\ a.end < b.end))

\* taiko_convert_timing_points: the velocities of sliders become scroll speeds
\* where the sliders are, the green points keep what else they say.
TaikoPoints(map) ==
    LET plain == [i \in DOMAIN map.points |-> IF map.points[i].red THEN map.points[i]
                                              ELSE [map.points[i] EXCEPT !.beat = Nil]]
        green(h) == At(map.points, h.start).green
        step(s, h) == IF h.type # "slider" \/ green(h) = s.last THEN s
                      ELSE [last |-> green(h),
                            added |-> Append(s.added, [time |-> h.start, beat |-> green(h), red |-> FALSE,
                                                       meter |-> At(map.points, h.start).meter,
                                                       kiai |-> At(map.points, h.start).kiai])]
    IN  SortSeq(plain \o FoldLeft(step, [last |-> -100, added |-> <<>>], map.objects).added,
                LAMBDA a, b : a.time < b.time)

(* Ticks no closer than spans: a slider that becomes hits has a hit at each *)
(* of its edges and each sounds as its edge; and taken together the objects *)
(* stand in order, within the objects they come from.                       *)
Ordered(objects) == \A i, j \in DOMAIN objects : i < j => objects[i].start <= objects[j].start
SoundsAtEdges(h, slider) ==
    LET hits == AsHits(h, slider)
        bySpans == slider.spacing = <<slider.duration, h.spans>> /\ slider.duration > 0
    IN  slider.short /\ bySpans /\ Len(h.edges) = h.spans + 1 =>
           \A k \in 0 .. h.spans : /\ hits[k + 1].start = h.start + (k * slider.duration) \div h.spans
                                   /\ hits[k + 1].sound = h.edges[k + 1]
EdgesSound(map) ==
    /\ Ordered(TaikoObjects(map))
    /\ \A h \in ToSet(map.objects) :
          /\ h.type = "slider" => SoundsAtEdges(h, Slider(map, h))
          /\ \A n \in ToSet(ConvertObject(map, h)) : h.start <= n.start /\ n.start <= n.end

------------------------------------------------------------------------------
(* build_scroll_segments: stretches of one speed.  A speed is the inverse   *)
(* of beat * -green; Unit is a multiple of all these products, so that the  *)
(* speed times Unit is whole.                                               *)
State(s, p) == IF p.red THEN [s EXCEPT !.beat = IF p.beat >= 60 THEN p.beat ELSE 333]
               ELSE IF p.beat = Nil THEN s
               ELSE IF p.beat >= 0 THEN [s EXCEPT !.green = -100] ELSE [s EXCEPT !.green = p.beat]
Speed(s, unit) == unit \div (s.beat * (-s.green))
Inner(points, end) == SelectSeq(points, LAMBDA p : p.time > 0 /\ p.time < end)
Early(points) == SelectSeq(points, LAMBDA p : p.time <= 0)

GoneTo(s, time, speed) == s.position + (time - s.start) * speed

ScrollSegments(points, end, unit) ==
    LET first == FoldLeft(State, [beat |-> 500, green |-> -100], Early(points))
        close(s, time) == [start |-> s.start, end |-> time, speed |-> Speed(s.at, unit), position |-> s.position]
        step(s, p) == [at |-> State(s.at, p), start |-> p.time,
                       position |-> GoneTo(s, p.time, Speed(s.at, unit)),
                       done |-> IF p.time > s.start THEN Append(s.done, close(s, p.time)) ELSE s.done]
        last == FoldLeft(step, [at |-> first, start |-> 0, position |-> 0, done |-> <<>>], Inner(points, end))
    IN  Append(last.done, close(last, end))

\* ScrollPositionMapper::position_at.
PositionAt(segments, time) ==
    LET t == Max({0, Min({time, Last(segments).end})})
        segment == Last(SelectSeq(segments, LAMBDA s : s.start <= t))
    IN  segment.position + (t - segment.start) * segment.speed

\* build_redline_sections.
RedSections(points, end) ==
    LET reds == SelectSeq(Early(points), LAMBDA p : p.red)
        start == IF reds = <<>> THEN 0 ELSE Min({0, Last(reds).time})
        later == SelectSeq(Inner(points, end), LAMBDA p : p.red)
        close(s, time) == [start |-> s.start, end |-> time, beat |-> s.beat, meter |-> s.meter]
        step(s, p) == [start |-> p.time, beat |-> p.beat, meter |-> p.meter,
                       done |-> IF p.time > s.start THEN Append(s.done, close(s, p.time)) ELSE s.done]
        last == FoldLeft(step, [start |-> start, done |-> <<>>,
                                beat |-> IF reds = <<>> THEN 500 ELSE Last(reds).beat,
                                meter |-> IF reds = <<>> THEN 4 ELSE Last(reds).meter], later)
    IN  Append(last.done, close(last, end))

\* build_kiai_sections.
KiaiSections(points, end) ==
    LET first == IF Early(points) = <<>> THEN FALSE ELSE Last(Early(points)).kiai
        step(s, p) == IF p.kiai = s.kiai THEN s
                      ELSE IF s.kiai THEN [kiai |-> FALSE, start |-> Nil,
                                           done |-> Append(s.done, [start |-> s.start, end |-> p.time])]
                      ELSE [s EXCEPT !.kiai = TRUE, !.start = p.time]
        last == FoldLeft(step, [kiai |-> first, start |-> 0, done |-> <<>>], Inner(points, end))
    IN  IF last.kiai THEN Append(last.done, [start |-> last.start, end |-> end]) ELSE last.done

------------------------------------------------------------------------------
(* build_timing_lines: a line per beat that is far enough from the next or  *)
(* begins a measure, one where kiai starts, and the bpm where it changes -  *)
(* with the first note when that comes later.                               *)
BeatsOf(section) ==
    {[time |-> section.start + k * section.beat, measure |-> k % Max({1, section.meter}) = 0, first |-> k = 0] :
        k \in 0 .. (section.end - section.start) \div section.beat}
ShowsBpm(sections, i) == i = 1 \/ sections[i].beat # sections[i - 1].beat
TimingLines(sections, segments, spacing, kiai, firstNote) ==
    LET deferred(i) == ShowsBpm(sections, i) /\ sections[i].start = 0 /\ firstNote > 0
        shown(i) == ShowsBpm(sections, i) /\ ~deferred(i)
        apart(b, s) == PositionAt(segments, Min({b.time + s.beat, s.end})) - PositionAt(segments, b.time)
        beats == UNION {{[time |-> b.time, measure |-> b.measure, kiaiStart |-> FALSE,
                          bpm |-> IF shown(i) /\ b.first THEN sections[i].beat ELSE Nil] :
                            b \in {b \in BeatsOf(sections[i]) :
                                      b.time >= 0 /\ (b.measure \/ apart(b, sections[i]) >= spacing)}} :
                        i \in DOMAIN sections}
        starts == {[time |-> kiai[i].start, measure |-> FALSE, kiaiStart |-> TRUE, bpm |-> Nil] : i \in DOMAIN kiai}
        late == {[time |-> firstNote, measure |-> FALSE, kiaiStart |-> FALSE, bpm |-> sections[i].beat] :
                    i \in {i \in DOMAIN sections : deferred(i)}}
        all == beats \union starts \union late
        merged(t) == LET same == {l \in all : l.time = t}
                         own == {l.bpm : l \in same \intersect beats} \ {Nil}
                         bpms == IF own # {} THEN own ELSE {l.bpm : l \in same} \ {Nil}
                     IN  [time |-> t, measure |-> \E l \in same : l.measure,
                          kiaiStart |-> \E l \in same : l.kiaiStart,
                          kiai |-> \E i \in DOMAIN kiai : kiai[i].start <= t /\ t < kiai[i].end,
                          bpm |-> IF bpms = {} THEN Nil ELSE CHOOSE b \in bpms : TRUE, label |-> TRUE]
        times == InOrder({l.time : l \in all})
    IN  [i \in DOMAIN times |-> merged(times[i])]

\* dedupe_display_labels; Tenth is what time_label_text shows of a time.
Tenth(time) == (time + 50) \div 100
DedupeLabels(lines) ==
    LET quiet(l) == [l EXCEPT !.label = FALSE, !.bpm = Nil]
        step(done, l) ==
            IF done = <<>> THEN <<l>>
            ELSE IF ~l.label \/ ~Last(done).label \/ Tenth(Last(done).time) # Tenth(l.time) THEN Append(done, l)
            ELSE IF (l.kiaiStart /\ ~Last(done).kiaiStart) \/ (l.bpm # Nil /\ Last(done).bpm = Nil)
                 THEN Append(Append(Front(done), quiet(Last(done))), l)
            ELSE Append(done, quiet(l))
    IN  FoldLeft(step, <<>>, lines)

\* compute_row_start_positions: the rows of a chart begin at a measure where one
\* is near enough.
RowStarts(measures, width, most) ==
    LET next(from) == LET near == {p \in measures : p > from + 1 /\ p <= from + most}
                      IN  IF near = {} THEN from + most ELSE Max(near)
        turns == Cardinality(measures) + width \div most + 1
        rows[n \in 0 .. turns] == IF n = 0 THEN <<0>>
                                  ELSE IF Last(rows[n - 1]) + most >= width THEN rows[n - 1]
                                  ELSE Append(rows[n - 1], next(Last(rows[n - 1])))
    IN  rows[turns]

\* apply_taiko_object_mods, effective_timing_points, spacing_timing_points_for_png.
Swapped(objects) ==
    [i \in DOMAIN objects |->
        IF objects[i].type # "hit" THEN objects[i]
        ELSE [objects[i] EXCEPT !.sound = IF @ \intersect {"whistle", "clap"} # {} THEN @ \ {"whistle", "clap"}
                                          ELSE @ \union {"clap"}]]
ConstantSpeed(points) == SelectSeq(points, LAMBDA p : p.red)
RedSpacing(points) == [i \in DOMAIN points |-> IF points[i].red THEN points[i] ELSE [points[i] EXCEPT !.beat = Nil]]

\* build_multiplier_points of the gif: the speed of a note is that of its own time.
MultiplierAt(points, time, multiplier, unit) ==
    LET step(s, p) == IF p.red THEN [beat |-> p.beat, green |-> -100]
                      ELSE IF p.beat = Nil THEN s
                      ELSE [s EXCEPT !.green = IF p.beat < 0 THEN p.beat ELSE -100]
        until == SelectSeq(points, LAMBDA p : p.time <= time)
        of(ps) == multiplier * Speed(FoldLeft(step, [beat |-> 1000, green |-> -100], ps), unit)
    IN  IF points = <<>> THEN multiplier * (unit \div 100000)
        ELSE of(IF until = <<>> THEN SubSeq(points, 1, 1) ELSE until)

(* A slider that became hits or a roll scrolls as fast as its velocity says *)
(* it did, beside which green points stood there: the points made for the   *)
(* taiko map say so.  One is missing where a red point lies between two     *)
(* sliders of one velocity: the gif takes it for the velocity 1, and the    *)
(* second slider scrolls too slow or too fast.  With SW a hit changes its   *)
(* colour and nothing else does.                                            *)
Rim(h) == h.sound \intersect {"whistle", "clap"} # {}
ResetBetween(map, i) ==
    LET green(h) == At(map.points, map.objects[h].start).green
        sliders == {h \in 1 .. i : map.objects[h].type = "slider"}
        first == Min({h \in sliders : \A g \in sliders : g >= h => green(g) = green(i)})
    IN  \E p \in ToSet(map.points) : p.red /\ map.objects[first].start < p.time
                                           /\ p.time <= map.objects[i].start
OnlyColoursSwap(all, swapped) ==
    \A i \in DOMAIN all :
       IF all[i].type = "hit" THEN Rim(swapped[i]) # Rim(all[i]) /\ swapped[i].start = all[i].start
       ELSE swapped[i] = all[i]
ScrollsAsWritten(map, unit) ==
    /\ \A i \in DOMAIN map.objects :
          LET h == map.objects[i] IN
             h.type = "slider" /\ (ResetBetween(map, i) => At(map.points, h.start).green = -100) =>
                MultiplierAt(TaikoPoints(map), h.start, map.multiplier, unit)
                   = map.multiplier * Speed(At(map.points, h.start), unit)
    /\ OnlyColoursSwap(TaikoObjects(map), Swapped(TaikoObjects(map)))

(* The axis of the chart: stretches and sections follow each other without  *)
(* a gap until the end, no later time is drawn before an earlier one, it is *)
(* kiai where the last point says so, and every row is reached and none is  *)
(* longer than allowed.                                                     *)
JoinedUntil(stretches, end) ==
    /\ \A i \in 2 .. Len(stretches) : stretches[i].start = stretches[i - 1].end
    /\ Last(stretches).end = end
SpeedsAdd(segments) ==
    \A i \in 2 .. Len(segments) : segments[i].position
       = segments[i - 1].position + (segments[i].start - segments[i - 1].start) * segments[i - 1].speed
KiaiAsSaid(kiai, points, end) ==
    \A t \in {p.time : p \in ToSet(Inner(points, end))} :
       At(points, t).kiai <=> \E i \in DOMAIN kiai : kiai[i].start <= t /\ t < kiai[i].end
LinesAdvance(lines, segments) ==
    \A i \in 2 .. Len(lines) : PositionAt(segments, lines[i - 1].time) < PositionAt(segments, lines[i].time)
RowsReach(rows, width, most) ==
    /\ \A i \in 2 .. Len(rows) : rows[i] > rows[i - 1] /\ rows[i] - rows[i - 1] <= most
    /\ Last(rows) + most >= width
ChartIsWhole(lines, segments, width, most) ==
    LET measures == {PositionAt(segments, lines[i].time) : i \in {i \in DOMAIN lines : lines[i].measure}}
    IN  LinesAdvance(lines, segments) /\ RowsReach(RowStarts(measures, width, most), width, most)
AxisIsContinuous(points, end, unit, spacing, most) ==
    LET segments == ScrollSegments(RedSpacing(points), end, unit)
        reds == RedSections(points, end)
        kiai == KiaiSections(points, end)
        lines == DedupeLabels(TimingLines(reds, segments, spacing, kiai, end \div 3))
    IN  /\ JoinedUntil(segments, end) /\ JoinedUntil(reds, end) /\ SpeedsAdd(segments)
        /\ KiaiAsSaid(kiai, points, end)
        /\ ChartIsWhole(lines, segments, PositionAt(segments, end), most)
===============================================================================
