---------------------------- MODULE ManiaPreview ----------------------------
(***************************************************************************)
(* The pictures of a mania chart (osubot-beatmap-preview/src/mania): the    *)
(* mods that change its notes, the columns and lines of the still picture,  *)
(* and the scroll axis of the moving one.  Times and beats are whole        *)
(* milliseconds, the scroll speed of a green point is held as the length    *)
(* -100 / v that the file gives.  Heights are pixels above the lower end of *)
(* a column; colours, labels and the width of lanes are left out.           *)
(***************************************************************************)
EXTENDS Integers, Sequences, SequencesExt, FiniteSetsExt
CONSTANT Nil
LOCAL InOrder(S) == SortSeq(FoldSet(LAMBDA x, seq : Append(seq, x), <<>>, S), <)
LOCAL Time == INSTANCE PreviewSegments WITH BreakGap <- 2000

HalfEven(n, d) ==
    LET q == n \div d
        r == 2 * (n % d)
    IN  IF r > d \/ (r = d /\ q % 2 = 1) THEN q + 1 ELSE q
CeilDiv(a, b) == (a + b - 1) \div b

\* beat_length_at: a first point that comes later counts from the beginning.
BeatAt(points, time) ==
    LET reds == SelectSeq(points, LAMBDA p : p.red /\ p.time <= time)
    IN  IF reds # <<>> THEN Last(reds).beat ELSE IF points = <<>> THEN 500 ELSE Head(points).beat

------------------------------------------------------------------------------
Earlier(a, b) ==
    \/ a.start < b.start
    \/ a.start = b.start /\ (a.end < b.end \/ (a.end = b.end /\ a.lane < b.lane))
Lane(objects, l) == SortSeq(SelectSeq(objects, LAMBDA h : h.lane = l), Earlier)
Lanes(objects) == InOrder({objects[i].lane : i \in DOMAIN objects})

(* Slip: the hold ends where the next note starts.                          *)
HeldUntilNext(a, b, points) == [a EXCEPT !.end = b.start, !.long = b.start > a.start]

(* A note is held until a quarter of a beat before the next, or for half of *)
(* the time between them when that is longer.                               *)
Held(a, b, points) ==
    LET gap == b.start - a.start
        quarters == Max({2 * gap, 4 * gap - BeatAt(points, b.start)})
        end == Max({a.start, HalfEven(4 * a.start + quarters, 4)})
    IN  [a EXCEPT !.end = end, !.long = end > a.start]

\* apply_inverse_mod: the last note of a lane has nothing to be held until.
InverseMod(objects, points) ==
    LET of(l) == LET s == Lane(objects, l) IN [i \in 1 .. Len(s) - 1 |-> Held(s[i], s[i + 1], points)]
        lanes == Lanes(objects)
    IN  SortSeq(FlattenSeq([i \in DOMAIN lanes |-> of(lanes[i])]), Earlier)

\* apply_hold_off_mod.
HoldOff(objects) ==
    SortSeq([i \in DOMAIN objects |-> [objects[i] EXCEPT !.end = objects[i].start, !.long = FALSE]], Earlier)

WithMods(objects, points, mods) ==
    LET inverse == IF "inverse" \in mods THEN InverseMod(objects, points) ELSE objects
    IN  IF "holdOff" \in mods THEN HoldOff(inverse) ELSE inverse

------------------------------------------------------------------------------
(* The still picture.  A late first note takes the beginning with it.       *)
Starts(objects) == {objects[i].start : i \in DOMAIN objects}
Ends(objects) == {objects[i].end : i \in DOMAIN objects}
Lead == 1000
ChartStart(objects, points) ==
    IF objects = <<>> \/ Min(Starts(objects)) < 5000 THEN 0
    ELSE Time!SnapToBeat(Min(Starts(objects)) - Lead, points)
FromStart(objects, start) ==
    IF start = 0 THEN objects
    ELSE [i \in DOMAIN objects |->
            LET from == Max({0, objects[i].start - start})
            IN  [objects[i] EXCEPT !.start = from, !.end = Max({from, @ - start})]]
PointsFrom(points, start) == [i \in DOMAIN points |-> [points[i] EXCEPT !.time = @ - start]]

\* build_png_layout, calculate_column_count, resolve_max_area_height.
Minute == 60000
Pixels(time) == HalfEven(4 * time, 10)
ColumnCount(duration, height) ==
    IF duration >= 10 * Minute THEN Nil
    ELSE IF duration >= 6 * Minute THEN 30
    ELSE Max({1, CeilDiv(height, 4000 + 1500 * (duration \div Minute))})
Layout(objects) ==
    LET duration == IF objects = <<>> THEN 0 ELSE Max(Ends(objects))
        end == duration + 2000
        count == ColumnCount(duration, Max({1, CeilDiv(4 * end, 10)}))
    IN  IF count = Nil THEN Nil
        ELSE [end |-> end, count |-> count, time |-> CeilDiv(end, count)]

\* The column a moment is drawn in.
ColumnOf(layout, time) == Min({time \div layout.time, layout.count - 1})

(* draw_png_hit_object: the part of a note in each column it goes through,  *)
(* a head at its beginning, and a body where it is held.                    *)
HeadHeight == 15
Top(layout) == CeilDiv(4 * layout.time, 10) + HeadHeight
Part(layout, h, c) ==
    LET from == Pixels(Max({h.start, c * layout.time}) - c * layout.time)
        to   == Pixels(Min({h.end, (c + 1) * layout.time}) - c * layout.time)
    IN  [column |-> c, head |-> c = ColumnOf(layout, h.start), bottom |-> Max({0, from}),
         top |-> Min({Top(layout), IF h.long THEN Max({to, from + HeadHeight}) ELSE from + HeadHeight})]
Drawn(layout, h) ==
    {Part(layout, h, c) : c \in ColumnOf(layout, h.start) .. ColumnOf(layout, h.end)}

(* build_timing_lines: of lines at one moment the last that is made stays;  *)
(* a change of tempo is told at the first line from its point on.           *)
Subdivision(beat, divisor) ==
    IF divisor > 0 THEN divisor ELSE IF 4 * beat >= 720 THEN 4 ELSE IF 4 * beat >= 280 THEN 2 ELSE 1
TimingLines(points, end, divisor) ==
    LET reds == SelectSeq(points, LAMBDA p : p.red)
        until(i) == IF i < Len(reds) THEN reds[i + 1].time ELSE end
        parts(i) == Subdivision(reds[i].beat, divisor)
        line(i, k) == [time |-> HalfEven(parts(i) * reds[i].time + k * reds[i].beat, parts(i)), of |-> i, k |-> k,
                       bar |-> k % Max({1, parts(i) * reds[i].meter}) = 0, beat |-> k % parts(i) = 0]
        steps(i) == {k \in 0 .. (parts(i) * (until(i) - reds[i].time)) \div reds[i].beat :
                        parts(i) * reds[i].time + k * reds[i].beat >= 0}
        made == UNION {{line(i, k) : k \in steps(i)} : i \in DOMAIN reds}
        lines == {l \in made : \A m \in made : m.time = l.time => m.of < l.of \/ (m.of = l.of /\ m.k <= l.k)}
        changes == {i \in DOMAIN reds : i = 1 \/ reds[i].beat # reds[i - 1].beat}
        told(i) == LET from == {l.time : l \in {m \in lines : m.time >= reds[i].time}}
                   IN  IF from = {} THEN Nil ELSE Min(from)
        tempo(t) == {i \in changes : told(i) = t}
    IN  {[time |-> l.time, bar |-> l.bar, beat |-> l.beat,
          tempo |-> IF tempo(l.time) = {} THEN Nil ELSE reds[Max(tempo(l.time))].beat] : l \in lines}

\* The times that are written beside the lines, 2 seconds apart.
Labelled(lines) ==
    LET times == InOrder({l.time : l \in {m \in lines : m.bar \/ m.beat}})
    IN  FoldLeft(LAMBDA kept, t : IF kept = <<>> THEN <<t>>
                                  ELSE IF t - Last(kept) < 2000 THEN kept ELSE Append(kept, t), <<>>, times)

------------------------------------------------------------------------------
(* The moving picture.  most_common_beat_length: the beat that lasts        *)
(* longest, the first of equals.                                            *)
BaseBeat(points, objects) ==
    LET reds == SelectSeq(points, LAMBDA p : p.red /\ p.beat > 0)
        last == IF objects = <<>> THEN Last(reds).time ELSE Max(Ends(objects))
        from(i) == IF i = 1 THEN 0 ELSE reds[i].time
        to(i) == IF i = Len(reds) THEN last ELSE reds[i + 1].time
        lasts(b) == FoldLeftDomain(LAMBDA sum, i : IF reds[i].beat # b \/ reds[i].time > last THEN sum
                                                   ELSE sum + Max({0, to(i) - from(i)}), 0, reds)
    IN  IF reds = <<>> THEN 500
        ELSE reds[CHOOSE i \in DOMAIN reds : \A j \in DOMAIN reds :
                    \/ lasts(reds[i].beat) > lasts(reds[j].beat)
                    \/ lasts(reds[i].beat) = lasts(reds[j].beat) /\ i <= j].beat

(* Slip: a stretch is passed at the speed of the next one.                  *)
AtNextSpeed(a, b) == a.position + (b.start - a.start) * b.speed

Passed(a, b) == a.position + (b.start - a.start) * a.speed

(* build_scroll_map: stretches of one speed, at which unit is the speed of  *)
(* the base beat.                                                           *)
Stretches(points, base, native, unit) ==
    LET speed(beat, green) == (unit * base * 100) \div (beat * (-green))
        step(s, p) ==
            IF p.red THEN [beat |-> p.beat, out |-> Append(s.out, [start |-> p.time, speed |-> speed(p.beat, -100)])]
            ELSE IF native /\ p.beat < 0
                 THEN [s EXCEPT !.out = Append(@, [start |-> p.time, speed |-> speed(s.beat, p.beat)])]
            ELSE s
    IN  FoldLeft(step, [beat |-> base, out |-> <<>>], points).out
FromZero(found, constant, unit) ==
    IF constant \/ found = <<>> THEN <<[start |-> 0, speed |-> unit]>>
    ELSE IF Head(found).start > 0 THEN <<[Head(found) EXCEPT !.start = 0]>> \o found ELSE found
ScrollMap(points, objects, constant, native, unit) ==
    LET place(done, s) ==
            LET at(p) == [start |-> s.start, speed |-> s.speed, position |-> p]
            IN  Append(done, at(IF done = <<>> THEN 0 ELSE Passed(Last(done), s)))
        found == Stretches(points, BaseBeat(points, objects), native, unit)
    IN  FoldLeft(place, <<>>, FromZero(found, constant, unit))

\* ScrollMap::position_at.
PositionAt(scroll, time) ==
    LET begun == SelectSeq(scroll, LAMBDA s : s.start <= time)
        at == IF begun = <<>> THEN Head(scroll) ELSE Last(begun)
    IN  at.position + (time - at.start) * at.speed

\* y_at_time, from the line where notes are hit upwards; scale in pixels.
HeightAt(scroll, time, now, scale, unit) ==
    HalfEven((PositionAt(scroll, time) - PositionAt(scroll, now)) * scale, unit)

\* build_sv_changes.
SvChanges(points, end) ==
    LET greens == SelectSeq(points, LAMBDA p : ~p.red /\ p.beat < 0 /\ p.time >= 0 /\ p.time <= end)
        step(done, p) == IF done # <<>> /\ Last(done).beat = p.beat THEN done ELSE Append(done, p)
    IN  FoldLeft(step, <<>>, greens)

------------------------------------------------------------------------------
(* With the inverse mod the notes of a lane still follow each other, each   *)
(* held note is let go before the next is struck, and no note is new.       *)
LanesStayPlayable(objects, points) ==
    LET inverse == InverseMod(objects, points)
    IN  \A l \in {objects[i].lane : i \in DOMAIN objects} :
          LET before == Lane(objects, l)
              after == Lane(inverse, l)
          IN  /\ Len(after) = Len(before) - 1
              /\ \A i \in DOMAIN after :
                    /\ after[i].start = before[i].start /\ after[i].end >= after[i].start
                    /\ after[i].end <= before[i + 1].start
                    /\ before[i].start + 1 < before[i + 1].start => after[i].end < before[i + 1].start

(* The still picture shows each note once, where it is: the lines move with *)
(* the notes, a head is in the column of its time, and the body of a held   *)
(* note goes on from column to column until it ends.                        *)
MovedTogether(moved, fixed, start) ==
    {[l EXCEPT !.time = @ + start, !.tempo = Nil] : l \in moved}
       = {[l EXCEPT !.tempo = Nil] : l \in {m \in fixed : m.time >= start}}
HasItsLines(lines, points, end) ==
    /\ \A p \in {q \in ToSet(points) : q.red /\ q.time >= 0 /\ q.time <= end} :
          \E l \in lines : l.time = p.time /\ l.bar
    /\ LET labels == Labelled(lines)
       IN  \A l \in {m \in lines : m.bar} :
              \E i \in DOMAIN labels : labels[i] <= l.time /\ l.time < labels[i] + 2000
DrawnOnce(h, drawn, layout) ==
    /\ Cardinality({d \in drawn : d.head}) = 1
    /\ \A d \in drawn : 0 <= d.column /\ d.column < layout.count /\ d.bottom < d.top
    /\ \A t \in {h.start, h.end} \union {c * layout.time : c \in {d.column : d \in drawn} \ {0}} :
          t >= h.start /\ (h.long \/ t = h.start) =>
             \E d \in drawn : /\ d.column = ColumnOf(layout, t)
                              /\ d.bottom <= Pixels(t - d.column * layout.time)
                              /\ Pixels(t - d.column * layout.time) <= d.top
PictureIsWhole(shown, layout, points, start, divisor) ==
    LET from == PointsFrom(points, start)
        moved == TimingLines(from, layout.end, divisor)
    IN  /\ MovedTogether(moved, TimingLines(points, layout.end + start, divisor), start)
        /\ HasItsLines(moved, from, layout.end)
        /\ \A h \in ToSet(shown) : DrawnOnce(h, Drawn(layout, h), layout)
ShownFrom(objects, points, start, divisor) ==
    LET shown == FromStart(objects, start)
        layout == Layout(shown)
    IN  /\ \A i \in DOMAIN objects : /\ shown[i].start = objects[i].start - start
                                     /\ shown[i].end = objects[i].end - start
        /\ layout # Nil => PictureIsWhole(shown, layout, points, start, divisor)
StaysOnItsLines(objects, points, divisor) ==
    ShownFrom(objects, points, ChartStart(objects, points), divisor)
NotesStayOnTheirLines(played, points, divisor, mods) ==
    StaysOnItsLines(WithMods(played, points, mods), points, divisor)

(* The scroll axis has no jump where the speed changes, a note never        *)
(* overtakes an earlier one, and the speed told last is the one in force.   *)
Advances(scroll, until) ==
    /\ \A i \in 2 .. Len(scroll) :
          LET t == scroll[i].start
          IN  PositionAt(scroll, t) - PositionAt(scroll, t - 1) \in {s.speed : s \in ToSet(scroll)}
    /\ \A t \in -1 .. until : PositionAt(scroll, t) < PositionAt(scroll, t + 1)
StayInOrder(objects, scroll, unit) ==
    \A a, b \in ToSet(objects), now \in {s.start : s \in ToSet(scroll)} :
       a.start <= b.start => HeightAt(scroll, a.start, now, 40, unit) <= HeightAt(scroll, b.start, now, 40, unit)
LastIsInForce(told, points, scroll) ==
    \A t \in {s.start : s \in ToSet(scroll)} :
       LET upTo(ps) == SelectSeq(ps, LAMBDA p : ~p.red /\ p.beat < 0 /\ 0 <= p.time /\ p.time <= t)
       IN  upTo(points) # <<>> => Last(upTo(told)).beat = Last(upTo(points)).beat
ScrollsEvenly(objects, points, scroll, unit, until) ==
    /\ Advances(scroll, until) /\ StayInOrder(objects, scroll, unit)
    /\ LastIsInForce(SvChanges(points, until), points, scroll)
NothingOvertakes(objects, points, constant, native, unit, until) ==
    ScrollsEvenly(objects, points, ScrollMap(points, objects, constant, native, unit), unit, until)
===============================================================================
