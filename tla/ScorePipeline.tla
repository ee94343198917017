---------------------------- MODULE ScorePipeline ----------------------------
(* From the list of scores the osu! API returned to the rows a score query  *)
(* shows (osubot/src/score_query).  A score is a record: its id, its map,   *)
(* whether it is of the last 24 hours (today), whether its pp is known      *)
(* (pp), whether the other conditions of the command hold of it (fits).     *)
EXTENDS Integers, Sequences, SequencesExt, Ordering
CONSTANTS
    FetchLimit,   \* SCORE_API_FETCH_LIMIT
    Nil           \* an absent id, map or end of range

Larger(a, b)  == IF a > b THEN a ELSE b
Smaller(a, b) == IF a < b THEN a ELSE b

(* ScoreQuerySpec: the table that shares the request, how many scores the   *)
(* API is asked for (Nil: as many as the command needs), whether a bare     *)
(* list is cut to the limit, what is rendered.                              *)
Card(c) == IF c.all THEN "list" ELSE "single"
Pass(c)      == [table |-> "pass",      ask |-> Nil, bare |-> FALSE, render |-> Card(c)]
Recent(c)    == [table |-> "recent",    ask |-> Nil, bare |-> FALSE, render |-> Card(c)]
Best(c)      == [table |-> "best",      ask |-> Nil, bare |-> FALSE, render |-> Card(c)]
TodayBest(c) == [table |-> "todayBest", ask |-> FetchLimit, bare |-> TRUE, render |-> Card(c)]
Audio(c)     == [table |-> "audio",     ask |-> Nil, bare |-> FALSE, render |-> "audio"]
Preview(c)   == [table |-> "preview",   ask |-> Nil, bare |-> FALSE, render |-> "preview"]
OnMap(c)     == [table |-> "onMap",     ask |-> Nil, bare |-> FALSE,
                 render |-> IF c.all \/ c.end # Nil THEN "list" ELSE "single"]
SpecOf(c) == CASE c.kind = "pass"      -> Pass(c)
               [] c.kind = "recent"    -> Recent(c)
               [] c.kind = "best"      -> Best(c)
               [] c.kind = "todayBest" -> TodayBest(c)
               [] c.kind = "audio"     -> Audio(c)
               [] c.kind = "preview"   -> Preview(c)
               [] c.kind = "onMap"     -> OnMap(c)

\* How many scores the API is asked for: all it gives when rows are dropped here.
Filtered(c) == c.filter # "none"
ApiLimit(c) ==
    LET raw == IF c.end = Nil THEN c.limit ELSE c.end
    IN  CASE SpecOf(c).ask # Nil -> SpecOf(c).ask
          [] SpecOf(c).ask = Nil /\ (Filtered(c) \/ c.map # Nil) -> Larger(raw, FetchLimit)
          [] OTHER -> raw

PostProcess(c, scores) ==
    IF c.kind = "todayBest" THEN Kept(scores, {i \in DOMAIN scores : scores[i].today}) ELSE scores

\* A row remembers the place its score has in the player's list (counted from 0).
Indexed(scores) == [i \in DOMAIN scores |-> [rank |-> i - 1, score |-> scores[i]]]

(* The scores of unknown pp are computed when the conditions ask for pp, and *)
(* before a list is drawn: the computations end in any order, and each      *)
(* result goes back to the place it was taken from.                         *)
Missing(rows) == {i \in DOMAIN rows : ~rows[i].score.pp}
Enriched(rows, order) ==
    LET after[n \in 0 .. Len(order)] ==
          IF n = 0 THEN rows ELSE [after[n - 1] EXCEPT ![order[n]].score.pp = TRUE]
    IN  after[Len(order)]

\* Slip: the map asked for is not looked at.
OfMapDropped(c, rows) == rows

OfMap(c, rows) == IF c.map = Nil THEN rows ELSE Kept(rows, {i \in DOMAIN rows : rows[i].score.map = c.map})
Matching(c, rows) ==
    CASE c.filter = "none"  -> rows
      [] c.filter = "other" -> Kept(rows, {i \in DOMAIN rows : rows[i].score.fits})
      [] c.filter = "pp"    -> Kept(rows, {i \in DOMAIN rows : rows[i].score.pp /\ rows[i].score.fits})

\* A range #limit-end, a bare list, one score.  A range that ends before it
\* starts is cut to a length below zero, which wraps: it is not cut.
Refuse(why) == [say |-> why, rows |-> <<>>]
Range0(c, rows) ==
    LET end == Smaller(c.end, Len(rows))
    IN  IF c.limit - 1 >= Len(rows) THEN Refuse("outOfRange")
        ELSE [say |-> "list",
              rows |-> SubSeq(rows, c.limit, IF end < c.limit - 1 THEN Len(rows) ELSE end)]
BareList(c, rows) ==
    [say |-> "list",
     rows |-> IF SpecOf(c).bare THEN SubSeq(rows, 1, Smaller(c.limit, Len(rows))) ELSE rows]
One(c, rows) ==
    IF c.limit - 1 >= Len(rows) THEN Refuse("outOfRange")
    ELSE [say |-> SpecOf(c).render, rows |-> <<rows[c.limit]>>]

(* run_score_query_pipeline from the answer of the API on.                  *)
Shown(c, scores, order) ==
    LET kept == PostProcess(c, scores)
        rows == IF c.filter = "pp" THEN Enriched(Indexed(kept), order) ELSE Indexed(kept)
        ofMap == OfMap(c, rows)
        left == Matching(c, ofMap)
    IN  CASE kept = <<>> -> Refuse("empty")
          [] kept # <<>> /\ left = <<>> -> Refuse("noMatch")
          [] left # <<>> /\ c.end # Nil -> Range0(c, left)
          [] left # <<>> /\ c.end = Nil /\ c.all -> BareList(c, left)
          [] left # <<>> /\ c.end = Nil /\ ~c.all -> One(c, left)

(* Rows shown keep the place their score has in the player's list, in that  *)
(* order, are of the map asked for, and none that satisfies the conditions  *)
(* is missing between two that are shown, whatever order pp is computed in  *)
(* (order: the places whose computation succeeds, as they end).             *)
RowsAreTheirs(c, scores, order) ==
    LET kept == PostProcess(c, scores)
        shown == Shown(c, scores, order).rows
        wanted(i) == /\ c.map = Nil \/ kept[i].map = c.map
                     /\ c.filter = "none" \/ kept[i].fits
                     /\ c.filter = "pp" => kept[i].pp \/ i \in ToSet(order)
    IN  ToSet(order) \subseteq Missing(Indexed(kept)) =>
        /\ \A i \in DOMAIN shown : LET n == shown[i].rank + 1 IN
              n \in DOMAIN kept /\ shown[i].score.id = kept[n].id /\ wanted(n)
        /\ \A i \in 1 .. Len(shown) - 1 :
              /\ shown[i].rank < shown[i + 1].rank
              /\ \A n \in shown[i].rank + 2 .. shown[i + 1].rank : ~wanted(n)
==============================================================================
