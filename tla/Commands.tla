------------------------------- MODULE Commands -------------------------------
(***************************************************************************)
(* From the frame OneBot sends to the command it asks for: the message in   *)
(* it (onebot.rs), the command in the message (osubot-core/src/commands),   *)
(* and whose game mode it runs in (command/mod.rs).  A text is a sequence   *)
(* of tokens, split and classified: [k |-> kind, ...].                      *)
(*   word w    num n    range from, to    qq n, at n (Nil: no number)       *)
(*   cond conds (key<op>value, several with commas)    time ms    gif       *)
(*   mode v (":v", Nil: no mode)    hash from, to, dash ("#from-to", a Nil  *)
(*   is no number)    plus mods, conds, hash ("+MODS,conds#N"; "odd": an    *)
(*   odd number of letters).  At most one plus, one hash in a text.         *)
(***************************************************************************)
EXTENDS Integers, Sequences, SequencesExt
CONSTANT Nil
LOCAL Clamp(n, lo, hi) == IF n < lo THEN lo ELSE IF n > hi THEN hi ELSE n
LOCAL Or(a, b) == IF a = Nil THEN b ELSE a

MaxLimit == 200
ScoreIdThreshold == 10000000
Modes == 0 .. 3
FromDigit(arg) == IF arg # Nil /\ arg \in Modes THEN arg ELSE Nil

Summaries == {"passes", "recents", "onMaps", "bests"}
Singles   == {"pass", "recent", "onMap", "best"}
Scoring   == Summaries \union Singles \union {"todayBest", "audio", "preview"}
Queries   == {"querySelf", "queryUser", "queryMentioned"}
DefaultLimit(kind) == IF kind \in Summaries \union {"todayBest"} THEN 20 ELSE 1

Blank == [kind |-> Nil, mode |-> Nil, username |-> Nil, qq |-> Nil, map |-> Nil,
          score |-> Nil, limit |-> Nil, end |-> Nil, filters |-> Nil, mods |-> Nil,
          summary |-> FALSE, explicit |-> FALSE, gif |-> FALSE, times |-> Nil,
          match |-> Nil, skip |-> 0]

------------------------------------------------------------------------------
(* The frame: text and mentions of its segments; a mention counts when it   *)
(* is the only one, and in a group.                                         *)
OfKind(tokens, k) == SelectSeq(tokens, LAMBDA t : t.k = k)
Without(tokens, k) == SelectSeq(tokens, LAMBDA t : t.k # k)
Mentioned(segments) ==
    LET ats == SelectSeq(segments, LAMBDA s : s.type = "at" /\ s.qq # Nil)
    IN  IF Len(ats) = 1 THEN ats[1].qq ELSE Nil
TextOf(segments) ==
    FlattenSeq([i \in DOMAIN segments |->
                  IF segments[i].type = "text" THEN segments[i].text ELSE <<>>])
Message(f) ==
    IF \/ f.post # "message" \/ f.user = Nil
       \/ f.type \notin {"private", "group"}
       \/ (f.type = "group" /\ f.group = Nil)
    THEN Nil
    ELSE [user |-> f.user, text |-> TextOf(f.segments),
          group |-> IF f.type = "group" THEN f.group ELSE Nil,
          mention |-> IF f.type = "group" THEN Mentioned(f.segments) ELSE Nil]

------------------------------------------------------------------------------
(* The arguments that are taken out of the text first, in this order.       *)

(* --gif and times of a preview; a third time refuses the command.          *)
Times(tokens) == LET ts == OfKind(tokens, "time") IN [i \in DOMAIN ts |-> ts[i].ms]
WithoutFlags(tokens) == Without(Without(tokens, "gif"), "time")

(* What follows the last colon is the mode, or no mode; a time has one too.  *)
HasColon(tokens) == \E i \in DOMAIN tokens : tokens[i].k \in {"mode", "time"}
LastColon(tokens) == SelectLastInSeq(tokens, LAMBDA t : t.k \in {"mode", "time"})
ModeOf(tokens) ==
    IF HasColon(tokens) /\ tokens[LastColon(tokens)].k = "mode"
    THEN tokens[LastColon(tokens)].v ELSE Nil
WithoutMode(tokens) ==
    IF HasColon(tokens) /\ tokens[LastColon(tokens)].k = "mode"
    THEN RemoveAt(tokens, LastColon(tokens)) ELSE tokens

(* +MODS,conditions: dropped as a whole when a part of it is not understood, *)
(* and > and < are not.                                                      *)
Equal == {"=", "==", "!=", ">=", "<="}
Understood(p) ==
    /\ p.mods # "odd"
    /\ p.conds # Nil => \A i \in DOMAIN p.conds : p.conds[i].op \in Equal
PlusOf(tokens) ==
    LET plus == OfKind(tokens, "plus")
    IN  IF plus = <<>> \/ ~Understood(plus[1])
        THEN [mods |-> Nil, conds |-> Nil, hash |-> Nil] ELSE plus[1]

(* "#N" and "#N-M".                                                          *)
ParseLimit(h) ==
    LET from == Clamp(Or(h.from, 1), 1, MaxLimit)
    IN  [limit |-> from,
         end |-> IF h.dash THEN Clamp(Or(h.to, from), from, MaxLimit) ELSE Nil]

(* What stands behind "#N" is taken for part of the number.                  *)
HashOf(tokens) ==
    LET at == SelectInSeq(tokens, LAMBDA t : t.k = "hash")
        ranges == OfKind(SubSeq(tokens, at + 1, Len(tokens)), "range")
        h == tokens[at]
    IN  CASE at = Len(tokens) -> h
          [] h.dash -> [h EXCEPT !.to = Nil]
          [] ranges = <<>> -> [h EXCEPT !.from = Nil]
          [] OTHER -> [from |-> Nil, dash |-> TRUE,
                       to |-> IF Len(ranges) = 1 /\ tokens[Len(tokens)].k = "range"
                              THEN ranges[1].to ELSE Nil]
BeforeHash(tokens) ==
    LET at == SelectInSeq(tokens, LAMBDA t : t.k = "hash")
    IN  IF at = 0 THEN tokens ELSE SubSeq(tokens, 1, at - 1)
PositionOf(tokens, plus, default) ==
    CASE OfKind(tokens, "hash") # <<>> -> ParseLimit(HashOf(tokens))
      [] OfKind(tokens, "hash") = <<>> /\ plus.conds # Nil /\ plus.hash # Nil
           -> ParseLimit(plus.hash)
      [] OTHER -> [limit |-> default, end |-> Nil]

(* The mods become a condition unless there is one on mods already.          *)
MergedFilters(plus) ==
    LET conds == Or(plus.conds, <<>>)
        onMods == \E i \in DOMAIN conds :
                     conds[i].key = "mod" /\ conds[i].op \in {"=", "==", "!="}
    IN  IF Or(plus.mods, <<>>) = <<>> \/ onMods THEN plus.conds
        ELSE Append(conds, [key |-> "mod", op |-> "=", value |-> plus.mods])

CommonArgs(tokens, default) ==
    LET noMode == WithoutMode(tokens)
        plus == PlusOf(noMode)
        noPlus == Without(noMode, "plus")
        position == PositionOf(noPlus, plus, default)
    IN  [mode |-> ModeOf(tokens), mods |-> plus.mods, filters |-> MergedFilters(plus),
         limit |-> position.limit, end |-> position.end, rest |-> BeforeHash(noPlus),
         explicit |-> \/ OfKind(noPlus, "hash") # <<>>
                      \/ (plus.conds # Nil /\ plus.hash # Nil)]

------------------------------------------------------------------------------
(* The rest, token by token: behind a condition, numbers and names are read  *)
(* no more.                                                                  *)
NothingRead == [refused |-> FALSE, map |-> Nil, score |-> Nil, names |-> <<>>, qq |-> Nil,
                conds |-> <<>>, limit |-> Nil, end |-> Nil]

ReadMention(r, t) == IF t.n = Nil THEN [r EXCEPT !.refused = TRUE] ELSE [r EXCEPT !.qq = t.n]
ReadRange(r, t) ==
    LET from == Clamp(t.from, 1, MaxLimit)
    IN  IF t.from > MaxLimit THEN [r EXCEPT !.refused = TRUE]
        ELSE [r EXCEPT !.limit = from, !.end = Clamp(t.to, from, MaxLimit)]
ReadNumber(r, t) ==
    CASE t.n >= ScoreIdThreshold -> [r EXCEPT !.score = t.n]
      [] t.n <= MaxLimit         -> [r EXCEPT !.limit = Clamp(t.n, 1, MaxLimit)]
      [] OTHER -> IF r.map = Nil THEN [r EXCEPT !.map = t.n] ELSE [r EXCEPT !.refused = TRUE]
ReadToken(r, t) ==
    CASE t.k \in {"qq", "at"} -> ReadMention(r, t)
      [] t.k = "cond" -> [r EXCEPT !.conds = @ \o t.conds]
      [] t.k \notin {"qq", "at", "cond"} /\ r.conds # <<>> -> r
      [] t.k = "range" /\ r.conds = <<>> -> ReadRange(r, t)
      [] t.k = "num" /\ r.conds = <<>> -> ReadNumber(r, t)
      [] OTHER -> [r EXCEPT !.names = Append(@, t)]
(* Slip: a name next to a QQ is let through.                                 *)
RemainingUnchecked(tokens) == FoldLeft(ReadToken, NothingRead, tokens)

Remaining(tokens) ==
    LET r == FoldLeft(ReadToken, NothingRead, tokens)
    IN  [r EXCEPT !.refused = \/ r.refused
                              \/ (r.qq # Nil /\ r.names # <<>>)
                              \/ (r.score # Nil /\ r.map # Nil)]

(* parse_standard_score.                                                     *)
Scored(kind, tokens, mention, args, rest) ==
    LET preview == kind = "preview"
        explicit == rest.limit # Nil \/ args.explicit
        range == rest.end # Nil \/ args.end # Nil
        filters == Or(args.filters, <<>>) \o rest.conds
        command ==
          [Blank EXCEPT
             !.kind = kind, !.mode = args.mode, !.map = rest.map, !.score = rest.score,
             !.username = IF rest.names = <<>> THEN Nil ELSE rest.names,
             !.qq = Or(rest.qq, mention), !.limit = Or(rest.limit, args.limit),
             !.end = IF preview \/ kind \in Singles THEN Nil ELSE Or(rest.end, args.end),
             !.filters = IF args.filters = Nil /\ filters = <<>> THEN Nil ELSE filters,
             !.explicit = kind \in {"audio", "todayBest", "preview"} /\ explicit,
             !.summary = \/ kind \in Summaries
                         \/ (kind = "todayBest" /\ (range \/ ~explicit)),
             !.mods = IF preview THEN args.mods ELSE Nil,
             !.gif = preview /\ OfKind(tokens, "gif") # <<>>,
             !.times = IF preview /\ Times(tokens) # <<>> THEN Times(tokens) ELSE Nil]
    IN  IF \/ rest.refused
           \/ (preview /\ Len(Times(tokens)) > 2)
           \/ (kind \in Singles \union {"audio"} /\ range)
        THEN Nil ELSE command
ScoringCommand(kind, tokens, mention) ==
    LET args == CommonArgs(IF kind = "preview" THEN WithoutFlags(tokens) ELSE tokens, DefaultLimit(kind))
    IN  Scored(kind, tokens, mention, args, Remaining(args.rest))

------------------------------------------------------------------------------
(* The other commands.  arg is what follows the head, Nil when nothing does. *)
WithMode(kind, arg, strict) ==
    IF strict /\ arg # Nil /\ FromDigit(arg) = Nil THEN Nil
    ELSE [Blank EXCEPT !.kind = kind, !.mode = FromDigit(arg)]
Where(who, arg) ==
    LET c == WithMode(IF who.k = "word" THEN "queryUser" ELSE "queryMentioned", arg, TRUE)
    IN  CASE c = Nil -> Nil
          [] c # Nil /\ who.k = "word" -> [c EXCEPT !.username = <<who>>]
          [] OTHER -> IF who.n = Nil THEN Nil ELSE [c EXCEPT !.qq = who.n]
OfMention(arg, mention) ==
    LET c == WithMode("queryMentioned", arg, TRUE)
    IN  IF mention = Nil \/ c = Nil THEN Nil ELSE [c EXCEPT !.qq = mention]
Profile(who, mention) ==
    LET c == [Blank EXCEPT !.kind = "profile"]
    IN  CASE who = Nil -> [c EXCEPT !.qq = mention]
          [] who # Nil /\ who.k = "word" -> [c EXCEPT !.username = <<who>>]
          [] OTHER -> IF who.n = Nil THEN Nil ELSE [c EXCEPT !.qq = who.n]
BindTo(name) == IF name = Nil THEN Nil ELSE [Blank EXCEPT !.kind = "bind", !.username = name]

(* !ml: one or two words, an operation [op] or a match [id] each (id Nil: no *)
(* match of osu!); skip is what follows "#" (Nil: no number in 1 .. 100).  *)
Ml(action, id) ==
    IF action \in {"start", "stop", "status"} /\ id = Nil THEN Nil
    ELSE [Blank EXCEPT !.kind = "ml", !.summary = action, !.match = id]
MlStart(id, skip) == LET c == Ml("start", id) IN IF c = Nil THEN Nil ELSE [c EXCEPT !.skip = skip]
Ml1(w, skip) ==
    CASE w.op \in {"stop", "status"} -> Nil
      [] w.op = "list" -> Ml("list", Nil)
      [] OTHER -> MlStart(w.id, skip)
Ml2(first, last, skip) ==
    CASE first.op = "stop" -> IF last.op = "all" THEN Ml("stopAll", Nil) ELSE Ml("stop", last.id)
      [] first.op = "status" -> Ml("status", last.id)
      [] first.op \notin {"stop", "status"} /\ last.op = "start" -> MlStart(first.id, skip)
      [] first.op \notin {"stop", "status"} /\ last.op = "stop" -> Ml("stop", first.id)
      [] first.op \notin {"stop", "status"} /\ last.op = "list" ->
            IF first.id = Nil THEN Nil ELSE Ml("list", Nil)
      [] OTHER -> Nil
MatchListen(words, skip) ==
    CASE skip = Nil \/ words = <<>> -> Nil
      [] skip # Nil /\ Len(words) = 1 -> Ml1(words[1], skip)
      [] skip # Nil /\ Len(words) = 2 -> Ml2(words[1], words[2], skip)

------------------------------------------------------------------------------
(* default_mode is the wish of the user asked about, not of the one who asks. *)
ModeSensitive(c) == c.kind \in Queries \union Scoring \union {"highlight"}
(* users: per QQ that is bound, its name (as tokens) and its default mode.   *)
QqOf(users, name) ==
    LET named == {qq \in DOMAIN users : users[qq].name = name}
    IN  IF named = {} THEN Nil ELSE CHOOSE qq \in named : TRUE
DefaultOf(users, qq) == IF qq \in DOMAIN users THEN users[qq].mode ELSE Nil

TargetQq(c, sender, users) ==
    CASE c.kind \in Scoring \union {"queryMentioned"} /\ c.qq # Nil -> c.qq
      [] c.kind \in Scoring \union {"queryUser"} /\ c.qq = Nil /\ c.username # Nil
           -> QqOf(users, c.username)
      [] OTHER -> IF ModeSensitive(c) THEN sender ELSE Nil
ResolveMode(c, sender, users) ==
    LET target == TargetQq(c, sender, users)
    IN  CASE c.mode # Nil -> c.mode
          [] c.mode = Nil /\ target # Nil /\ DefaultOf(users, target) # Nil -> DefaultOf(users, target)
          [] OTHER -> 0

(* Whom resolve_score_user looks up: a name before a QQ.                      *)
ShownUser(c, sender) ==
    IF c.username # Nil THEN c.username ELSE IF c.qq # Nil THEN c.qq ELSE sender

(* build_cmd_payload: what a plugin is told of the command.                   *)
Told(c) ==
    LET has(kinds, value) == IF c.kind \in kinds THEN value ELSE Nil
        placed == Scoring \ {"best", "bests", "todayBest"}
    IN  [username |-> has(Scoring \union {"queryUser", "bind", "profile"}, c.username),
         qq |-> has(Scoring \union {"queryMentioned", "profile"}, c.qq),
         map |-> has(placed, c.map), score |-> has(placed, c.score),
         limit |-> has(Scoring, c.limit), filters |-> has(Scoring, c.filters),
         end |-> has(Scoring \ {"audio", "preview"}, c.end),
         explicit |-> c.kind \in {"audio", "preview"} /\ c.explicit]
------------------------------------------------------------------------------
(* parse_command on the head of a text and what follows it.                  *)
Parse(head, in, mention) ==
    CASE head \in Scoring    -> ScoringCommand(head, in.tokens, mention)
      [] head = "~"          -> WithMode("querySelf", in.arg, TRUE)
      [] head = "where"      -> Where(in.who, in.arg)
      [] head = "of mention" -> OfMention(in.arg, mention)
      [] head = "bind"       -> BindTo(in.who)
      [] head = "highlight"  -> WithMode("highlight", in.arg, FALSE)
      [] head = "mode"       -> WithMode("mode", in.arg, FALSE)
      [] head = "profile"    -> Profile(in.who, mention)
      [] head = "ml"         -> MatchListen(in.words, in.skip)
      [] OTHER               -> [Blank EXCEPT !.kind = head]

(* A command asks for one place or for a range that starts before it ends    *)
(* (the pipeline of score queries subtracts one from the other); the default *)
(* mode it runs in is that of the user it shows, whom plugins are told of;   *)
(* and there is a match to act on.  Only a text with several positions gets  *)
(* the range wrong, and only one that names a user and mentions another gets *)
(* the mode wrong.                                                           *)
Positions(tokens) ==
    SelectSeq(tokens, LAMBDA t : \/ t.k \in {"range", "hash"}
                                 \/ (t.k = "num" /\ t.n <= MaxLimit)
                                 \/ (t.k = "plus" /\ t.hash # Nil))
PlaceIsWhole(c, tokens) ==
    /\ c.limit \in 1 .. MaxLimit
    /\ c.end # Nil => /\ c.end \in 1 .. MaxLimit
                      /\ c.limit <= c.end \/ Len(Positions(tokens)) > 1
    /\ c.score = Nil \/ c.map = Nil
ModeIsTheirs(c, sender, users) ==
    LET shown == ShownUser(c, sender)
        theirs == IF c.username # Nil THEN QqOf(users, shown) ELSE shown
    IN  ResolveMode(c, sender, users) =
          CASE c.mode # Nil -> c.mode
            [] c.mode = Nil /\ theirs # Nil /\ DefaultOf(users, theirs) # Nil -> DefaultOf(users, theirs)
            [] OTHER -> 0
CommandIsCoherent(c, tokens, mention, sender, users) ==
    c # Nil =>
      /\ c.kind \in Scoring => PlaceIsWhole(c, tokens)
      /\ ModeSensitive(c) => \/ (c.username # Nil /\ mention # Nil)
                              \/ ModeIsTheirs(c, sender, users)
      /\ Told(c).username = c.username /\ Told(c).qq = c.qq
      /\ c.kind = "ml" => (c.summary \in {"list", "stopAll"} <=> c.match = Nil)
==============================================================================
