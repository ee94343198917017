----------------------------- MODULE ManiaConvert -----------------------------
(***************************************************************************)
(* From a standard map to a mania map for the preview                       *)
(* (osubot-beatmap-preview/src/convert/mania): object by object, the notes  *)
(* that become of it, which depend on the notes of the object before.  The  *)
(* generator of random numbers is a choice; chances are in thousandths, the *)
(* difficulty of the conversion in tenths.  A note is its lane, the spans   *)
(* of its object that have passed where it starts and where it ends, and    *)
(* which it is of the two that are written together.                        *)
(***************************************************************************)
EXTENDS Integers, FiniteSetsExt
CONSTANTS Maps,          \* what is converted: total_columns and conv_diff
          Circles(_),    \* by number of columns, circles: x, the gap to the note before,
                         \* whether it is near, whether notes are dense, kiai, the sounds
          Sliders(_)     \* sliders: x, the milliseconds of a span, spans, kiai, the
                         \* sounds, and those of the head

VARIABLES columns, difficulty,
          prev,    \* prev_pattern: its columns
          stair,   \* stair_type: "up" or "down"
          notes,   \* what became of the last object
          failed   \* the conversion has returned an error
vars == <<columns, difficulty, prev, stair, notes, failed>>

FirstColumn == IF columns = 8 THEN 1 ELSE 0
Usable == FirstColumn .. columns - 1
Mirrored(c) == FirstColumn + columns - c - 1
Tap(c, at) == [lane |-> c, at |-> at, until |-> at, second |-> FALSE]
Second(note) == [note EXCEPT !.second = TRUE]
Lanes(ns) == {n.lane : n \in ns}

\* get_column for a position in the field.
Column(x) == IF columns = 8 THEN Min({6, (x * 7) \div 512}) + 1
             ELSE Min({columns - 1, (x * columns) \div 512})

------------------------------------------------------------------------------
(* find_available_column: where it may end; nowhere is an error.            *)
\* Slip: the column that must be left out is not.
OpenAnyway(among, taken, except) == among \ taken

Open(among, taken, except) == (among \ taken) \ except

Available(start, among, taken, except, gathered) ==
    LET open == Open(among, taken, except)
        next(n) == FirstColumn + ((start - FirstColumn + n) % (columns - FirstColumn))
    IN  IF start \in open THEN {start}
        ELSE IF open = {} \/ ~gathered THEN open
        ELSE {next(CHOOSE n \in 1 .. columns : /\ next(n) \in open
                                               /\ \A m \in 1 .. n - 1 : next(m) \notin open)}

\* A run of draws: what is written so far, the column of the last draw, and
\* whether every draw found one.
Run(ns, col) == [notes |-> ns, col |-> col, ok |-> TRUE]
Then(run, free, Write(_, _)) ==
    IF ~run.ok THEN {run}
    ELSE IF free = {} THEN {[run EXCEPT !.ok = FALSE]}
    ELSE {[run EXCEPT !.notes = Write(run.notes, c), !.col = c] : c \in free}
Times(n, runs, Step(_, _)) ==
    LET after[k \in 0 .. n] == IF k = 0 THEN runs ELSE UNION {Step(k, r) : r \in after[k - 1]}
    IN  after[n]

\* get_random_note_count: the counts that can come out.
Counts(p2, p3, p4, p5) ==
    {n \in 1 .. 5 : CASE n = 5 -> p5 > 0
                      [] n = 4 -> p4 > p5
                      [] n = 3 -> p3 > Max({p4, p5})
                      [] n = 2 -> p2 > Max({p3, p4, p5})
                      [] n = 1 -> Max({p2, p3, p4, p5}) < 1000}
Least(p, q) == Min({p, q})

------------------------------------------------------------------------------
\* circle_resolve_convert_type.
ConvertType(h) ==
    LET gap == CASE h.gap <= 80 -> {"notStack", "single"}
                 [] h.gap > 80 /\ h.gap <= 95 -> {"notStack", "single", stair}
                 [] h.gap > 95 /\ h.gap <= 105 -> {"notStack", "low"}
                 [] h.gap > 105 /\ h.gap <= 125 -> {"notStack"}
                 [] h.gap > 125 /\ h.gap <= 135 /\ h.near -> {"cycle", "single"}
                 [] h.gap > 135 /\ h.gap <= 150 /\ h.near -> {"stack", "low"}
                 [] h.gap > 150 /\ h.near /\ ~h.dense -> {"reverse", "low"}
                 [] OTHER -> IF h.dense \/ h.kiai THEN {} ELSE {"low"}
    IN  IF "single" \in gap THEN gap
        ELSE IF "finish" \in h.sound /\ columns # 8 THEN gap \union {"mirror"}
        ELSE IF "clap" \in h.sound THEN gap \union {"gathered"} ELSE gap

\* circle_get_random_note_count, circle_cap_note_counts.
CircleCounts(h, p2, p3, p4, p5) ==
    LET two(p) == IF "clap" \in h.sound THEN 1000 ELSE p
    IN  CASE columns = 2 -> Counts(two(0), 0, 0, 0)
          [] columns = 3 -> Counts(two(Least(p2, 100)), 0, 0, 0)
          [] columns = 4 -> Counts(two(Least(p2, 230)), Least(p3, 40), 0, 0)
          [] columns = 5 -> Counts(two(p2), Least(p3, 150), Least(p4, 30), 0)
          [] OTHER -> Counts(two(p2), p3, p4, p5)

\* circle_gen_random_notes.
RandomNotes(h, ct, count) ==
    LET apart == "notStack" \in ct
        n == IF apart THEN Least(count, columns - FirstColumn - Cardinality(prev)) ELSE count
        taken(r) == Lanes(r.notes) \union (IF apart THEN prev ELSE {})
    IN  Times(IF n < 0 THEN 0 ELSE n, {Run({}, Column(h.x))},
              LAMBDA k, r : Then(r, Available(r.col, Usable, taken(r), {}, "gathered" \in ct),
                                 LAMBDA ns, c : ns \union {Tap(c, 0)}))

\* circle_add_special_column.
WithSpecial(h, runs) ==
    {IF FirstColumn > 0 /\ {"clap", "finish"} \subseteq h.sound /\ 0 \notin Lanes(r.notes)
     THEN [r EXCEPT !.notes = @ \union {Tap(0, 0)}] ELSE r : r \in runs}

\* circle_gen_mirrored.
MirroredNotes(h, ct) ==
    LET hard == difficulty > 65
        mid == difficulty > 40 /\ ~hard
        capped(p, least) == Max({0, 1000 - Max({2 * (1000 - p), least})})
        p2 == IF hard THEN 380 ELSE IF mid THEN 170 ELSE 0
        p3 == IF hard THEN 120 ELSE 0
        counts == CASE columns \in {2, 3} -> Counts(0, 0, 0, 0)
                    [] columns = 4 -> Counts(capped(p2, 800), p3, 0, 0)
                    [] columns = 5 -> Counts(p2, 0, 0, 0)
                    [] columns = 6 -> Counts(capped(p2, 500), capped(p3, 850), 0, 0)
                    [] OTHER -> Counts(p2, p3, 0, 0)
        half == FirstColumn .. FirstColumn + columns \div 2 - 1
        pairs(n) == Times(n, {Run({}, c) : c \in half},
                          LAMBDA k, r : Then(r, Available(r.col, half, Lanes(r.notes), {}, FALSE),
                                             LAMBDA ns, c : ns \union {Tap(c, 0), Second(Tap(Mirrored(c), 0))}))
        centred(r) == [r EXCEPT !.notes = @ \union {Tap(columns \div 2, 0)}]
        all(n) == IF columns % 2 = 1 /\ n # 3 THEN pairs(n) \union {centred(r) : r \in pairs(n)} ELSE pairs(n)
    IN  IF "notStack" \in ct
        THEN UNION {RandomNotes(h, ct, n) :
                n \in IF hard THEN CircleCounts(h, 690, 380, 250, 120)
                      ELSE IF mid THEN CircleCounts(h, 585, 170, 85, 0) ELSE CircleCounts(h, 500, 0, 0, 0)}
        ELSE UNION {all(n) : n \in counts}

CircleCountsOf(h, low) ==
    CASE difficulty > 65 -> IF low THEN CircleCounts(h, 780, 420, 0, 0) ELSE CircleCounts(h, 1000, 620, 0, 0)
      [] difficulty > 40 /\ difficulty <= 65 ->
            IF low THEN CircleCounts(h, 350, 80, 0, 0) ELSE CircleCounts(h, 520, 150, 0, 0)
      [] difficulty > 20 /\ difficulty <= 40 ->
            IF low THEN CircleCounts(h, 180, 0, 0, 0) ELSE CircleCounts(h, 450, 0, 0, 0)
      [] OTHER -> CircleCounts(h, 0, 0, 0, 0)

Row(cs) == {Run({Tap(c, 0) : c \in cs}, 0)}
OneOfPrev == CHOOSE c \in prev : TRUE
CanCycle == /\ Cardinality(prev) = 1 /\ ~(columns = 8 /\ OneOfPrev = 0)
            /\ ~(columns % 2 = 1 /\ OneOfPrev = columns \div 2)
Climbs(ct) == Cardinality(prev) = 1 /\ ct \intersect {"up", "down"} # {}
Climbed == IF stair = "up" THEN IF OneOfPrev + 1 >= columns THEN FirstColumn ELSE OneOfPrev + 1
           ELSE IF OneOfPrev - 1 < FirstColumn THEN columns - 1 ELSE OneOfPrev - 1

\* circle_generate.
CircleRuns(h) ==
    LET ct == ConvertType(h)
        before == prev \intersect Usable
    IN  IF columns <= 1 THEN Row({0})
        ELSE IF "reverse" \in ct /\ prev # {} THEN Row({Mirrored(c) : c \in before})
        ELSE IF "cycle" \in ct /\ CanCycle THEN Row({Mirrored(OneOfPrev)})
        ELSE IF "stack" \in ct /\ prev # {} THEN Row(before)
        ELSE IF Climbs(ct) THEN Row({Climbed})
        ELSE IF "single" \in ct THEN RandomNotes(h, ct, 1)
        ELSE IF "mirror" \in ct THEN WithSpecial(h, MirroredNotes(h, ct))
        ELSE WithSpecial(h, UNION {RandomNotes(h, ct, n) : n \in CircleCountsOf(h, "low" \in ct)})
StairAfter(h) ==
    LET ct == ConvertType(h)
        climbs == /\ columns > 1 /\ Climbs(ct)
    IN  IF climbs /\ stair = "up" /\ Climbed = columns - 1 THEN "down"
        ELSE IF climbs /\ stair = "down" /\ Climbed = FirstColumn THEN "up" ELSE stair

------------------------------------------------------------------------------
Hold(spans, from, ns, c) == ns \union {[lane |-> c, at |-> from, until |-> spans, second |-> FALSE]}

\* slider_gen_holds.
Holds(h, wanted) ==
    LET count == Least(wanted, columns - FirstColumn)
        apart == Least(columns - FirstColumn - Cardinality(prev), count)
    IN  Times(count, {Run({}, c) : c \in Usable},
              LAMBDA k, r : Then(r, Available(r.col, Usable,
                                    Lanes(r.notes) \union (IF k <= apart THEN prev ELSE {}), {}, FALSE),
                                 LAMBDA ns, c : Hold(h.spans, 0, ns, c)))

\* slider_gen_notes_no_stack; the column that is drawn after the last note is
\* not used, and is drawn all the same.
NotesNoStack(h, count, apart) ==
    LET col == Column(h.x)
        start == IF apart /\ Cardinality(prev) < columns THEN Available(col, Usable, prev, {}, FALSE) ELSE {col}
    IN  Times(count, IF start = {} THEN {[Run({}, col) EXCEPT !.ok = FALSE]} ELSE {Run({}, c) : c \in start},
              LAMBDA k, r : Then(r, Available(r.col, Usable, {}, {r.col}, FALSE),
                                 LAMBDA ns, c : ns \union {Tap(r.col, k - 1)}))

\* slider_gen_stair.
StairStep(at) ==
    IF at.up THEN IF at.col >= columns - 1 THEN [up |-> FALSE, col |-> at.col - 1] ELSE [at EXCEPT !.col = @ + 1]
    ELSE IF at.col <= FirstColumn THEN [up |-> TRUE, col |-> at.col + 1] ELSE [at EXCEPT !.col = @ - 1]
Stair(h) ==
    LET at(up) == LET f[i \in 0 .. h.spans] == IF i = 0 THEN [up |-> up, col |-> Column(h.x)] ELSE StairStep(f[i - 1])
                  IN  f
    IN  {Run({Tap(at(up)[i].col, i) : i \in 0 .. h.spans}, 0) : up \in BOOLEAN}

\* slider_gen_random_multiple.
RandomMultiple(h) ==
    LET legacy == IF columns \in 4 .. 8 THEN 1 ELSE 0
        beside(c, interval) == FirstColumn + (IF c + interval >= columns - FirstColumn
                                              THEN c + interval - columns + legacy ELSE c + interval)
        intervals == IF columns = 1 THEN {1} ELSE 1 .. columns - legacy - 1
        step(interval, k, r) ==
            {[r EXCEPT !.col = c,
                       !.notes = @ \union {Tap(r.col, k - 1)} \union
                           (IF columns > 2 THEN {Second(Tap(beside(r.col, interval), k - 1))} ELSE {})] : c \in Usable}
    IN  UNION {Times(h.spans + 1, {Run({}, Column(h.x))}, LAMBDA k, r : step(i, k, r)) : i \in intervals}

\* slider_gen_tiled_holds.
TiledHolds(h) ==
    Times(Least(h.spans, columns), {Run({}, Column(h.x))},
          LAMBDA k, r : Then(r, Available(r.col, Usable, Lanes(r.notes), {}, FALSE),
                             LAMBDA ns, c : Hold(h.spans, k - 1, ns, c)))

\* slider_gen_hold_and_normal.
HoldAndNormal(h) ==
    LET col == Column(h.x)
        few == columns < 6
        counts == CASE difficulty > 65 -> Counts(630, 0, 0, 0)
                    [] difficulty > 40 /\ difficulty <= 65 -> Counts(IF few THEN 120 ELSE 450, 0, 0, 0)
                    [] difficulty > 25 /\ difficulty <= 40 -> Counts(IF few THEN 0 ELSE 240, 0, 0, 0)
                    [] OTHER -> {0}
        at(i, ns) == Lanes({n \in ns : n.at = i /\ n.until = i})
        beside(n, i, r) == IF i = 0 /\ h.head = {} THEN {r}
                           ELSE Times(n, {r}, LAMBDA k, q : Then(q, Available(q.col, Usable, at(i, q.notes), {col}, FALSE),
                                                                 LAMBDA ns, c : ns \union {Tap(c, i)}))
    IN  UNION {Times(h.spans + 1, {Run(Hold(h.spans, 0, {}, col), c) : c \in Usable},
                     LAMBDA k, r : beside(Least(columns - 1, n), k - 1, r)) : n \in counts}

\* slider_gen_n_random_notes, slider_cap_hold_counts.
HoldCounts(h, p2, p3) ==
    LET two == ~h.kiai \/ (h.sound \union h.head) \intersect {"clap", "finish"} = {}
    IN  Counts(IF two THEN p2 ELSE 1000, p3, 0, 0)
CappedHoldCounts(h, p2, p3) ==
    CASE columns = 2 -> HoldCounts(h, 0, 0)
      [] columns = 3 -> HoldCounts(h, Least(p2, 100), 0)
      [] columns = 4 -> HoldCounts(h, Least(p2, 300), Least(p3, 40))
      [] columns = 5 -> HoldCounts(h, Least(p2, 340), Least(p3, 100))
      [] OTHER -> HoldCounts(h, p2, p3)
SingleSpanCounts(h) ==
    CASE difficulty > 65 -> IF h.kiai THEN CappedHoldCounts(h, 850, 360) ELSE CappedHoldCounts(h, 780, 300)
      [] difficulty > 40 /\ difficulty <= 65 ->
            IF h.kiai THEN CappedHoldCounts(h, 560, 180) ELSE CappedHoldCounts(h, 430, 80)
      [] difficulty > 25 /\ difficulty <= 40 ->
            IF h.kiai THEN CappedHoldCounts(h, 370, 80) ELSE CappedHoldCounts(h, 300, 0)
      [] OTHER -> IF h.kiai THEN CappedHoldCounts(h, 270, 0) ELSE CappedHoldCounts(h, 170, 0)

\* slider_generate, by the length of a span.
SliderRuns(h) ==
    LET holds(counts) == UNION {Holds(h, n) : n \in counts}
    IN  IF h.spans = 1
        THEN IF h.seg <= 110
             THEN NotesNoStack(h, IF h.seg < 80 THEN 1 ELSE 2, Cardinality(prev) < columns)
             ELSE holds(SingleSpanCounts(h))
        ELSE IF h.seg <= 90 THEN Holds(h, 1)
        ELSE IF h.seg <= 120 THEN NotesNoStack(h, h.spans + 1, TRUE)
        ELSE IF h.seg <= 160 THEN Stair(h)
        ELSE IF h.seg <= 200 /\ difficulty > 30 THEN RandomMultiple(h)
        ELSE IF h.seg * h.spans >= 4000 THEN holds(HoldCounts(h, 230, 0))
        ELSE IF h.seg > 400 /\ h.spans < columns - 1 - FirstColumn THEN TiledHolds(h)
        ELSE HoldAndNormal(h)

\* slider_split_patterns: the next object is set against the notes that end last.
EndColumns(ns, spans) ==
    IF Cardinality(ns) = 1 THEN Lanes(ns) ELSE Lanes({n \in ns : n.until = spans})

------------------------------------------------------------------------------
Init ==
    /\ \E m \in Maps : columns = m[1] /\ difficulty = m[2]
    /\ prev = {} /\ stair = "up" /\ notes = {} /\ failed = FALSE

Outcomes(runs) == {[r EXCEPT !.col = 0] : r \in runs}
Becomes(run, ends) ==
    /\ failed' = ~run.ok
    /\ notes' = IF run.ok THEN run.notes ELSE {}
    /\ prev' = IF run.ok THEN ends ELSE prev

\* mania_convert_all, for one object.  A spinner is set apart from the notes
\* before it and leaves no trace for the object after it.
Circle == \E h \in Circles(columns) : \E run \in Outcomes(CircleRuns(h)) : Becomes(run, Lanes(run.notes)) /\ stair' = StairAfter(h)
Slider == \E h \in Sliders(columns) : \E run \in Outcomes(SliderRuns(h)) : Becomes(run, EndColumns(run.notes, h.spans)) /\ UNCHANGED stair
Spinner ==
    LET force == Cardinality(prev) < columns
        free == IF force THEN UNION {Available(c, Usable, prev, {}, FALSE) : c \in Usable} ELSE 0 .. columns - 1
    IN  \E held \in BOOLEAN :
          \E run \in Then(Run({}, 0), free, LAMBDA ns, c : {[Tap(c, 0) EXCEPT !.until = IF held THEN 1 ELSE 0]}) :
              Becomes(run, prev) /\ UNCHANGED stair

Next == ~failed /\ (Circle \/ Slider \/ Spinner) /\ UNCHANGED <<columns, difficulty>>
Spec == Init /\ [][Next]_vars

------------------------------------------------------------------------------
(* What becomes of an object can be played, whatever objects came before:   *)
(* every note is in a lane of the map, and no two of one object are in one  *)
(* lane at one time.  Two slips of the code are left out: the conversion    *)
(* runs out of lanes at four lanes and a difficulty above 6.5, though its   *)
(* comment says the counts are capped per key count, and RandomMultiple of  *)
(* eight lanes may write one note twice.                                    *)
NotesCanBePlayed ==
    /\ failed => columns = 4 /\ difficulty > 65
    /\ \A n \in notes : n.lane \in 0 .. columns - 1
    /\ \A n, m \in notes : n # m /\ n.lane = m.lane =>
          \/ n.until < m.at \/ m.until < n.at
          \/ columns = 8 /\ Second(n) = Second(m)
===============================================================================
