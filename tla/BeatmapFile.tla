----------------------------- MODULE BeatmapFile -----------------------------
(***************************************************************************)
(* Reading a beatmap for its preview (osubot-beatmap-preview/src/parser.rs, *)
(* models.rs).  A file is its lines by section; a line is the record of     *)
(* what its parts parse to, Nil where a part is missing or is no number.    *)
(* Times are milliseconds, the slider multiplier is in tenths.              *)
(***************************************************************************)
EXTENDS Integers, Sequences, SequencesExt
CONSTANTS Nil, MaxLines

------------------------------------------------------------------------------
\* parse_timing_points.  A timing point: its time, the length of its beat, and
\* whether it is red (uninherited).
ReadTiming(lines) ==
    LET read == SelectSeq(lines, LAMBDA l : l.time # Nil /\ l.beat # Nil)
        kept == SelectSeq(read, LAMBDA l : l.beat > 0)
    IN  SortSeq([i \in DOMAIN kept |->
                    [time |-> kept[i].time, beat |-> kept[i].beat, red |-> kept[i].red]],
                LAMBDA a, b : a.time < b.time)

\* parse_break_periods: an event of kind 2 that lasts.
ReadBreaks(lines) ==
    LET kept == SelectSeq(lines, LAMBDA l : l.kind = 2 /\ l.start # Nil /\ l.end # Nil)
        breaks == [i \in DOMAIN kept |-> [start |-> kept[i].start, end |-> kept[i].end]]
    IN  SelectSeq(breaks, LAMBDA b : b.end > b.start)

\* parse_combo_colors.
ReadColours(lines) ==
    LET kept == SelectSeq(lines, LAMBDA l : l.combo # Nil /\ l.colour # Nil)
    IN  [i \in DOMAIN kept |-> SortSeq(kept, LAMBDA a, b : a.combo < b.combo)[i].colour]

------------------------------------------------------------------------------
\* The length of a beat at a time, and the velocity of sliders there as the
\* negative length -100 / v of the last green point (resolve_slider_timing).
TimingAt(points, time) ==
    LET until == SelectSeq(points, LAMBDA p : p.time <= time)
    IN  IF points = <<>> THEN [beat |-> 500, green |-> -100]
        ELSE FoldLeft(LAMBDA at, p : IF p.red THEN [beat |-> p.beat, green |-> -100]
                                     ELSE IF p.beat < 0 THEN [at EXCEPT !.green = p.beat] ELSE at,
                      [beat |-> points[1].beat, green |-> -100], until)

RoundHalfEven(p, q) ==
    LET whole == p \div q
        twice == 2 * (p % q)
    IN  IF twice > q \/ (twice = q /\ whole % 2 = 1) THEN whole + 1 ELSE whole

\* parse_slider_end_time: length / (multiplier * 100 * velocity) * beat * slides.
SliderEnd(line, multiplier, points) ==
    LET timing == TimingAt(points, line.time)
        duration == RoundHalfEven(line.pixels * timing.beat * line.slides * (-timing.green), 1000 * multiplier)
    IN  IF line.slides = Nil \/ line.pixels = Nil THEN Nil
        ELSE IF multiplier = Nil THEN line.time
        ELSE IF multiplier <= 0 \/ duration < 0 THEN line.time
        ELSE line.time + duration

\* parse_end_time; line.stop is the sixth part, of spinners and holds.
EndTime(line, multiplier, points) ==
    IF line.type = "spinner" THEN line.stop
    ELSE IF line.type = "slider" THEN SliderEnd(line, multiplier, points)
    ELSE line.time

\* parse_slider_fields.
SliderReads(line) ==
    /\ line.path # Nil /\ line.slides # Nil /\ line.pixels # Nil
    /\ line.pixels \in 0 .. 1000000
Repeats(line) == IF line.slides < 1 THEN 1 ELSE IF line.slides > 9000 THEN 9000 ELSE line.slides

\* Slip: objects are sorted by where they end.
InOrderOfEnds(objects) == SortSeq(objects, LAMBDA a, b : a.end < b.end)

InOrder(objects) ==
    SortSeq(objects, LAMBDA a, b : a.start < b.start \/ (a.start = b.start /\ a.end < b.end))

\* parse_standard, parse_taiko, parse_catch: a line that does not parse is left
\* out; taiko has no use for positions and slider paths.
Reads(mode, line, multiplier, points) ==
    /\ line.time # Nil /\ line.type # Nil
    /\ mode # "taiko" => line.x # Nil
    /\ mode # "catch" => line.sound # Nil
    /\ EndTime(line, multiplier, points) # Nil
    /\ mode # "taiko" /\ line.type = "slider" => SliderReads(line)
Object(mode, l, end) ==
    [start |-> l.time, end |-> end, type |-> l.type, x |-> l.x, sound |-> l.sound,
     path |-> IF l.type = "slider" /\ mode # "taiko"
              THEN [repeats |-> Repeats(l), pixels |-> l.pixels] ELSE [repeats |-> 1, pixels |-> 0]]
ReadObjects(mode, lines, multiplier, points) ==
    LET kept == SelectSeq(lines, LAMBDA l : Reads(mode, l, multiplier, points))
    IN  InOrder([i \in DOMAIN kept |-> Object(mode, kept[i], EndTime(kept[i], multiplier, points))])

\* parse_mania: the lane of a position, the end of a hold.
Lane(x, keys) ==
    LET lane == (x * keys) \div 512
    IN  IF lane < 0 THEN 0 ELSE IF lane > keys - 1 THEN keys - 1 ELSE lane
ReadMania(lines, circleSize) ==
    LET keys == IF circleSize > 18 THEN 18 ELSE circleSize
        kept == SelectSeq(lines, LAMBDA l : /\ l.time # Nil /\ l.type # Nil /\ l.x # Nil
                                            /\ l.type = "hold" => l.stop # Nil)
    IN  IF circleSize = Nil THEN Nil
        ELSE IF circleSize < 1 THEN Nil
        ELSE InOrder([i \in DOMAIN kept |->
                [lane |-> Lane(kept[i].x, keys), start |-> kept[i].time, hold |-> kept[i].type = "hold",
                 end |-> IF kept[i].type = "hold" THEN kept[i].stop ELSE kept[i].time]])

------------------------------------------------------------------------------
\* parse_beatmap_str.  Nil is an error; a section that is missing is not in the
\* domain of the file, and what follows a section's second header joins it.
Section(file, name) == IF name \in DOMAIN file THEN file[name] ELSE <<>>
Modes == <<"osu", "taiko", "catch", "mania">>

ObjectsOf(file, mode, points) ==
    IF mode = 3 THEN ReadMania(file["HitObjects"], file["Difficulty"].circleSize)
    ELSE ReadObjects(Modes[mode + 1], file["HitObjects"], file["Difficulty"].multiplier, points)
Beatmap(file, mode, points, objects) ==
    IF points = <<>> \/ mode = Nil THEN Nil
    ELSE IF mode \notin 0 .. 3 THEN Nil
    ELSE IF objects = Nil THEN Nil
    ELSE [mode |-> Modes[mode + 1], difficulty |-> file["Difficulty"], points |-> points, objects |-> objects,
          breaks |-> ReadBreaks(Section(file, "Events")), colours |-> ReadColours(Section(file, "Colours")),
          previewTime |-> IF "General" \in DOMAIN file THEN file["General"].previewTime ELSE Nil]
ParseBeatmap(file) ==
    LET points == ReadTiming(Section(file, "TimingPoints"))
        mode == IF "General" \in DOMAIN file THEN file["General"].mode ELSE 0
    IN  IF \E s \in {"TimingPoints", "HitObjects"} : Len(Section(file, s)) > MaxLines THEN Nil
        ELSE IF ~({"Metadata", "Difficulty", "TimingPoints", "HitObjects"} \subseteq DOMAIN file) THEN Nil
        ELSE Beatmap(file, mode, points, ObjectsOf(file, mode, points))

------------------------------------------------------------------------------
(* What is read stands in order, nothing ends before it starts but a        *)
(* spinner or a hold whose line says so, lanes are lanes of the map, and a  *)
(* line that does not parse does not disturb the others: reading a file     *)
(* less such a line reads the same.                                         *)
IsReadInOrder(map) ==
    /\ \A i, j \in DOMAIN map.objects : i < j => map.objects[i].start <= map.objects[j].start
    /\ \A i, j \in DOMAIN map.points : i < j => map.points[i].time <= map.points[j].time
    /\ \A i \in DOMAIN map.objects :
          IF map.mode = "mania"
          THEN map.objects[i].lane \in 0 .. map.difficulty.circleSize - 1
          ELSE map.objects[i].type # "spinner" => map.objects[i].start <= map.objects[i].end
Undisturbed(map, file) ==
    Len(map.objects) < Len(file["HitObjects"]) =>
       \E i \in DOMAIN file["HitObjects"] : ParseBeatmap([file EXCEPT !["HitObjects"] = RemoveAt(@, i)]) = map
FileIsReadInOrder(file) ==
    LET map == ParseBeatmap(file)
    IN  map # Nil => IsReadInOrder(map) /\ Undisturbed(map, file)
===============================================================================
