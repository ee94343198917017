------------------------------ MODULE HitTiming ------------------------------
(***************************************************************************)
(* The unstable rate of a play (osubot-core/src/ur.rs): the key presses of  *)
(* its replay, and which of them hit which note.  Times are milliseconds,   *)
(* od and ar tenths.                                                        *)
(***************************************************************************)
EXTENDS Integers, Sequences, FiniteSets, SequencesExt, FiniteSetsExt
CONSTANT Nil
LOCAL InOrder(S, Before(_, _)) == SortSeq(FoldSet(LAMBDA x, seq : Append(seq, x), <<>>, S), Before)
LOCAL Abs(n) == IF n < 0 THEN -n ELSE n

------------------------------------------------------------------------------
(* The replay.  A record of its text is a frame (the time since the frame   *)
(* before, whether it stands at the marker of lazer, the keys held), the    *)
(* seed, something that has not four parts, or a number that is none.       *)
RawFrames(records) ==
    LET frames == SelectSeq(records, LAMBDA r : r.k = "frame")
        at[i \in 0 .. Len(frames)] == IF i = 0 THEN 0 ELSE at[i - 1] + frames[i].delta
    IN  IF \E i \in DOMAIN records : records[i].k = "bad" THEN Nil
        ELSE [i \in DOMAIN frames |-> [at |-> at[i], marker |-> frames[i].marker, keys |-> frames[i].keys]]

Aligned(frames) ==
    IF frames[1].at > frames[3].at
    THEN [frames EXCEPT ![1].at = frames[3].at, ![2].at = frames[3].at] ELSE frames
Stripped(frames) ==
    LET first == SelectInSeq(frames, LAMBDA f : ~f.marker)
    IN  IF first = 0 THEN <<>> ELSE SubSeq(frames, first, Len(frames))

\* parse_corrected_replay_deltas, with the times still absolute.
Frames(records) ==
    LET raw == RawFrames(records)
    IN  IF raw = Nil THEN Nil ELSE IF Len(raw) < 3 THEN Nil ELSE Stripped(Aligned(raw))

(* extract_key_times_from_deltas: a first frame before the song, or more    *)
(* than ten seconds into it, is the offset between replay and map; it is    *)
(* left out and time starts at the frame after it.                          *)
Longest == 10000
Offset(first) == IF first \in 0 .. Longest THEN 0 ELSE Abs(first)

KeyTimes(frames) ==
    LET first == frames[1].at
        offset == Offset(first)
        left == IF first \in 0 .. Longest THEN frames ELSE Tail(frames)
        start == IF first \in 0 .. Longest THEN 0 ELSE first
        before(i) == IF i = 1 THEN {} ELSE left[i - 1].keys
        pressed == SelectSeq([i \in DOMAIN left |-> i], LAMBDA i : left[i].keys \ before(i) # {})
    IN  [offset |-> offset, times |-> [i \in DOMAIN pressed |-> left[pressed[i]].at - start]]

(* Against the notes moved by the offset, a press is as early or as late as *)
(* the frame it was made in is against the notes where they stand: the      *)
(* offset cancels out, as long as the replay begins within ten seconds.     *)
OffsetsCancel(records) ==
    LET frames == Frames(records)
    IN  frames # Nil /\ frames # <<>> /\ frames[1].at <= Longest =>
          LET keys == KeyTimes(frames)
          IN  \A i \in DOMAIN keys.times : \E f \in ToSet(frames) :
                 f.keys # {} /\ keys.times[i] - keys.offset = f.at

------------------------------------------------------------------------------
(* hit_windows in half milliseconds, preempt_from_ar.                       *)
Windows(od) ==
    LET half(least, slope) == 2 * ((10 * least - slope * od) \div 10) - 1
    IN  [w300 |-> half(80, 6), w100 |-> half(140, 8), w50 |-> half(200, 10)]
Preempt(ar) == IF ar < 50 THEN 1200 + 12 * (50 - ar) ELSE 1200 - 15 * (ar - 50)

(* match_hits: presses in ascending order.  Of all pairs of a note and a    *)
(* press within its window, the closest first.                              *)
Pairs(keys, notes, od, ar) ==
    {p \in [n : DOMAIN notes, k : DOMAIN keys] :
        /\ 2 * Abs(keys[p.k] - notes[p.n]) <= Windows(od).w50
        /\ keys[p.k] >= notes[p.n] - Preempt(ar)}
Error(keys, notes, p) == Abs(keys[p.k] - notes[p.n])
Closer(keys, notes, p, q) ==
    LET e == Error(keys, notes, p)
        f == Error(keys, notes, q)
    IN  e < f \/ (e = f /\ (p.n < q.n \/ (p.n = q.n /\ p.k < q.k)))

\* Slip: a press may hit again.
FreeNote(chosen, p) == \A q \in chosen : q.n # p.n

Free(chosen, p) == \A q \in chosen : q.n # p.n /\ q.k # p.k

Chosen(keys, notes, od, ar) ==
    LET inOrder == InOrder(Pairs(keys, notes, od, ar), LAMBDA p, q : Closer(keys, notes, p, q))
    IN  FoldLeft(LAMBDA chosen, p : IF Free(chosen, p) THEN chosen \union {p} ELSE chosen, {}, inOrder)

Judged(error, od) ==
    CASE 2 * error <= Windows(od).w300 -> 3
      [] 2 * error > Windows(od).w300 /\ 2 * error <= Windows(od).w100 -> 2
      [] OTHER -> 1
MatchHits(keys, notes, od, ar) ==
    LET chosen == Chosen(keys, notes, od, ar)
    IN  [n \in DOMAIN notes |->
            IF \E p \in chosen : p.n = n
            THEN LET p == CHOOSE p \in chosen : p.n = n
                 IN  [hit |-> Judged(Error(keys, notes, p), od), key |-> p.k]
            ELSE [hit |-> 0, key |-> Nil]]

(* calculate_score_ur: the errors of the notes hit, per unit of game time   *)
(* (rate is <<p, q>>), and the square of what is shown: 100 times their     *)
(* variance, as a pair.                                                     *)
ErrorsOf(keys, notes, hits) ==
    LET hit == SelectSeq([n \in DOMAIN notes |-> n], LAMBDA n : hits[n].hit > 0)
    IN  [i \in DOMAIN hit |-> keys[hits[hit[i]].key] - notes[hit[i]]]
PlayErrors(keys, notes, od, ar) ==
    LET moved == [n \in DOMAIN notes |-> notes[n] + keys.offset]
    IN  ErrorsOf(keys.times, moved, MatchHits(keys.times, moved, od, ar))
TimingErrors(records, notes, od, ar) ==
    LET frames == Frames(records)
    IN  IF frames = Nil \/ frames = <<>> THEN <<>> ELSE PlayErrors(KeyTimes(frames), notes, od, ar)
SquaredRate(errors, rate) ==
    LET n == Len(errors)
        sum == FoldLeft(LAMBDA a, e : a + e, 0, errors)
        squares == FoldLeft(LAMBDA a, e : a + e * e, 0, errors)
    IN  IF errors = <<>> THEN Nil
        ELSE <<100 * (n * squares - sum * sum) * rate[2] * rate[2], n * n * rate[1] * rate[1]>>
UnstableRateSquared(mode, loaded, records, notes, od, ar, rate) ==
    IF mode # "osu" \/ ~loaded \/ notes = <<>> THEN Nil
    ELSE SquaredRate(TimingErrors(records, notes, od, ar), rate)

(* Through the whole replay: an error is the time between a note and a      *)
(* frame with a key down, both where they stand in the map; and what is     *)
(* shown is no root of a negative number.                                   *)
ArePlayed(errors, frames, notes) ==
    \A e \in ToSet(errors) : \E f \in ToSet(frames), n \in ToSet(notes) : f.keys # {} /\ f.at - n = e
IsSquare(rate) == rate # Nil => rate[1] >= 0 /\ rate[2] > 0
ErrorsAreThePlays(records, notes, od, ar) ==
    LET frames == Frames(records)
    IN  frames # Nil /\ frames # <<>> /\ frames[1].at <= Longest =>
          /\ ArePlayed(TimingErrors(records, notes, od, ar), frames, notes)
          /\ IsSquare(UnstableRateSquared("osu", TRUE, records, notes, od, ar, <<3, 2>>))

(* A press hits one note at most and a note is hit once; and where a note   *)
(* and a press within its window are not matched, one of them has a match   *)
(* that is no further off: no exact press is lost to a sloppy one.          *)
MatchingIsStable(keys, notes, od, ar) ==
    LET hits == MatchHits(keys, notes, od, ar)
        matched == {n \in DOMAIN notes : hits[n].key # Nil}
        error(n) == Error(keys, notes, [n |-> n, k |-> hits[n].key])
    IN  /\ \A n, m \in matched : hits[n].key = hits[m].key => n = m
        /\ \A p \in Pairs(keys, notes, od, ar) :
              \E n \in matched : /\ n = p.n \/ hits[n].key = p.k
                                 /\ error(n) <= Error(keys, notes, p)
        /\ \A n \in DOMAIN notes : hits[n].hit = 0 <=> n \notin matched
===============================================================================
