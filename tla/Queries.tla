------------------------------- MODULE Queries -------------------------------
(* The handlers of the query commands: whose data a command asks for, the   *)
(* requests it shares with other handlers, the map the chat remembers, and  *)
(* what it says in the end.  One task per message; steps end where the code *)
(* awaits something.  The osu! API, the renderers and the upload answer, or *)
(* fail, or run into their timeouts, in any order.                          *)
EXTENDS Integers, Sequences, FiniteSets
CONSTANTS
    Tasks, Commands,   \* handlers; the commands chats may send
    Users, Nil,
    Scores,            \* Scores[u]: what the API lists of user u
    MapOf,             \* MapOf[id]: the map of a score id
    Bound,             \* Bound[q]: the user a QQ is bound to, or Nil
    Known,             \* Known[q]: what the upstream bots know of a QQ, or Nil
    FetchLimit

P == INSTANCE ScorePipeline

VARIABLES
    task,       \* per handler: pc, its command, the user it is about, what it fetched
    flights,    \* shared requests: key -> the handler that runs it, the ones that wait
    bindings,   \* user_bindings
    last,       \* LastBeatmapCache: per chat the map and whether it is younger than 24 h
    said        \* per handler, what the chat got from it
vars == <<task, flights, bindings, last, said>>

None == [pc |-> "new", cmd |-> Nil, user |-> Nil, map |-> Nil, stats |-> Nil,
         got |-> Nil, shows |-> <<>>]
Init ==
    /\ task = [t \in Tasks |-> None]
    /\ flights = <<>>
    /\ bindings = Bound
    /\ last = [h \in {c.chat : c \in Commands} |-> Nil]
    /\ said = [t \in Tasks |-> <<>>]

ScoreKinds == {"pass", "recent", "best", "todayBest", "onMap", "audio", "preview"}
CmdOf(t) == task[t].cmd
Goto(t, pc) == task' = [task EXCEPT ![t].pc = pc]

(* Every handler ends by saying something: a text names the QQ it is        *)
(* addressed to (Nil: a text that names nobody).                            *)
Say(t, what, qq) ==
    /\ said' = [said EXCEPT ![t] = Append(@, [what |-> what, names |-> qq])]
    /\ Goto(t, "done")
Text(t) == Say(t, "text", CmdOf(t).qq)

Remember(t, map) == last' = [last EXCEPT ![CmdOf(t).chat] = [map |-> map, fresh |-> TRUE]]
\* LastBeatmapCache::get drops an entry it finds too old.
Remembered(h) == IF last[h] = Nil \/ ~last[h].fresh THEN Nil ELSE last[h].map
Forget(h) == last' = [last EXCEPT ![h] = IF Remembered(h) = Nil THEN Nil ELSE @]

------------------------------------------------------------------------------
(* RequestDedup: the first handler of a key runs the request, the others    *)
(* wait for its answer.  errorNames is whom an error text names: tables     *)
(* whose error type is a String hold the text the first handler wrote,      *)
(* tables of DedupApiError hold a class each handler writes its own text of. *)
Typed == {"byId", "mapset"}
Errors(key, t) == IF key[1] \in Typed THEN Nil ELSE CmdOf(t).qq
Join(t, key, list, pc) ==
    /\ flights' = IF key \in DOMAIN flights
                  THEN [flights EXCEPT ![key].waiting = @ \cup {t}]
                  ELSE [k \in DOMAIN flights \cup {key} |-> IF k # key THEN flights[k]
                           ELSE [names |-> Errors(key, t), list |-> list, waiting |-> {t}]]
    /\ Goto(t, pc)
Without(key) == [k \in DOMAIN flights \ {key} |-> flights[k]]
ErrorNames(key, t) == IF flights[key].names = Nil THEN CmdOf(t).qq ELSE flights[key].names

------------------------------------------------------------------------------
(* A message arrives: the command decides where the handler begins.         *)
Target(c) == c.target # "self" \/ c.filter # "none" \/ c.explicit
Begins(c, known) ==
    CASE c.kind \in {"stats", "profile"} -> "who"
      [] c.kind \in {"help", "highlight"} -> "replies"
      [] c.kind \in ScoreKinds /\ c.score # Nil -> "byId"
      [] c.kind = "audio" /\ c.score = Nil /\ c.map # Nil -> "mapset"
      [] c.kind = "preview" /\ c.score = Nil /\ c.map # Nil -> "preview"
      [] c.kind \in {"audio", "preview"} /\ c.score = Nil /\ c.map = Nil
            /\ ~Target(c) /\ known # Nil -> IF c.kind = "audio" THEN "mapset" ELSE "preview"
      [] c.kind = "onMap" /\ c.score = Nil /\ c.map = Nil /\ known = Nil -> "needMap"
      [] OTHER -> "who"
Reads(c) == c.kind \in {"audio", "preview", "onMap"} /\ c.score = Nil /\ c.map = Nil
            /\ (c.kind = "onMap" \/ ~Target(c))
Start(t, c) ==
    LET known == IF Reads(c) THEN Remembered(c.chat) ELSE Nil
        map == IF c.map = Nil THEN known ELSE c.map
    IN  /\ task[t].pc = "new"
        /\ task' = [task EXCEPT ![t] =
              [None EXCEPT !.pc = Begins(c, known), !.cmd = c, !.map = map]]
        /\ IF c.kind \in {"onMap", "preview"} /\ c.score = Nil
                /\ (c.map # Nil \/ (c.kind = "onMap" /\ known # Nil))
           THEN last' = [last EXCEPT ![c.chat] = [map |-> map, fresh |-> TRUE]]
           ELSE IF Reads(c) THEN Forget(c.chat) ELSE UNCHANGED last
        /\ UNCHANGED <<flights, bindings, said>>
\* Help, and the best of the group's members, are one text either way.
Replies(t) == task[t].pc = "replies" /\ Text(t) /\ UNCHANGED <<flights, bindings, last>>
NeedMap(t) == task[t].pc = "needMap" /\ Text(t) /\ UNCHANGED <<flights, bindings, last>>

(* The score, or the map's set, is asked for by its id.                     *)
AskById(t) ==
    /\ task[t].pc = "byId"
    /\ Join(t, <<"byId", CmdOf(t).score>>, <<>>, "waitsId")
    /\ UNCHANGED <<bindings, last, said>>
AskMapset(t) ==
    /\ task[t].pc = "mapset"
    /\ Join(t, <<"mapset", task[t].map>>, <<>>, "waitsSet")
    /\ UNCHANGED <<bindings, last, said>>

(* Whose data: the user named, or the one the QQ is bound to; a QQ without  *)
(* a binding is looked up upstream and bound to what is found there, unless *)
(* that user has another QQ.  The table may fail.                           *)
About(c) == IF c.target = "mention" THEN c.at ELSE c.qq
\* Slip: the upstream's answer is stored without looking for the user's QQ.
AutoBoundAnyway(q, u) == [bindings EXCEPT ![q] = u]

AutoBound(q, u) == IF \E r \in DOMAIN bindings : r # q /\ bindings[r] = u
                   THEN bindings ELSE [bindings EXCEPT ![q] = u]
Knows(t, u) ==
    LET c == CmdOf(t) IN
    task' = [task EXCEPT ![t].user = u,
                         ![t].pc = CASE c.kind = "profile" -> "profile"
                                     [] c.kind = "stats" -> "stats"
                                     [] c.kind \in ScoreKinds /\ c.target = "self" -> "join"
                                     [] OTHER -> "stats"]
WhoByName(t) ==
    /\ task[t].pc = "who" /\ CmdOf(t).target = "name"
    /\ \/ Knows(t, CmdOf(t).at) /\ UNCHANGED said
       \/ CmdOf(t).kind = "profile" /\ Text(t)
    /\ UNCHANGED <<flights, bindings, last>>
WhoByQq(t) ==
    /\ task[t].pc = "who" /\ CmdOf(t).target # "name"
    /\ LET q == About(CmdOf(t)) IN
       \/ bindings[q] # Nil /\ Knows(t, bindings[q]) /\ UNCHANGED said
       \/ bindings[q] = Nil /\ Goto(t, "upstream") /\ UNCHANGED said
       \/ Text(t)
    /\ UNCHANGED <<flights, bindings, last>>
Upstream(t) ==
    /\ task[t].pc = "upstream"
    /\ LET q == About(CmdOf(t))
           u == Known[q] IN
       \/ /\ u # Nil
          /\ Knows(t, u)
          /\ bindings' \in {bindings, AutoBound(q, u)}
          /\ UNCHANGED said
       \/ Text(t) /\ UNCHANGED bindings
    /\ UNCHANGED <<flights, last>>
\* The user binds by command while a handler waits for the upstream.
Bind(q, u) ==
    /\ bindings[q] # u
    /\ bindings' = AutoBound(q, u)
    /\ bindings' # bindings
    /\ \E t \in Tasks : task[t].pc = "upstream" /\ About(CmdOf(t)) = q
    /\ UNCHANGED <<task, flights, last, said>>

(* The stats are fetched by the handler itself; an error text of            *)
(* fetch_stats_and_reply names the QQ asked about.                          *)
Stats(t) ==
    /\ task[t].pc = "stats"
    /\ \/ CmdOf(t).kind = "stats" /\ Say(t, "text", Nil)
       \/ /\ CmdOf(t).kind \in ScoreKinds /\ CmdOf(t).score = Nil
          /\ Goto(t, "scores") /\ UNCHANGED said
       \/ CmdOf(t).kind \in ScoreKinds /\ CmdOf(t).score # Nil
          /\ Goto(t, "single") /\ UNCHANGED said
       \/ Say(t, "text", IF CmdOf(t).kind = "stats" THEN About(CmdOf(t)) ELSE CmdOf(t).qq)
    /\ UNCHANGED <<flights, bindings, last>>
(* Own scores: stats and scores are asked for at once (join!), and an error *)
(* of the stats comes first.                                                *)
Resolved(t) == IF CmdOf(t).kind = "onMap" THEN [CmdOf(t) EXCEPT !.map = task[t].map] ELSE CmdOf(t)
\* Slip: the key does not tell how many scores are asked for.
ScoreKeyNoLimit(t) == <<P!SpecOf(CmdOf(t)).table, task[t].user, Nil, task[t].map>>

ScoreKey(t) ==
    LET c == Resolved(t) IN
    <<P!SpecOf(c).table, task[t].user, P!ApiLimit(c), IF c.kind = "onMap" THEN task[t].map ELSE Nil>>
Listed(t) ==
    LET mine == Scores[task[t].user]
        all == IF CmdOf(t).kind = "onMap"
               THEN P!Kept(mine, {i \in DOMAIN mine : mine[i].map = task[t].map}) ELSE mine
        n == P!ApiLimit(Resolved(t))
    IN  IF Len(all) <= n THEN all ELSE SubSeq(all, 1, n)
AskScores(t) ==
    /\ task[t].pc \in {"scores", "join"}
    /\ Join(t, ScoreKey(t), Listed(t), IF task[t].pc = "join" THEN "waitsBoth" ELSE "waitsScores")
    /\ UNCHANGED <<bindings, last, said>>
OwnStats(t) ==
    /\ task[t].pc = "waitsBoth" /\ task[t].stats = Nil
    /\ \E r \in {"ok", "error"} : task' = [task EXCEPT ![t].stats = r]
    /\ UNCHANGED <<flights, bindings, last, said>>
AskProfile(t) ==
    /\ task[t].pc = "profile"
    /\ Join(t, <<"profile", task[t].user>>, <<>>, "waitsProfile")
    /\ UNCHANGED <<bindings, last, said>>

------------------------------------------------------------------------------
(* A shared request ends: the handlers that wait for it get its answer, or  *)
(* the error with the QQ its text names.                                    *)
Waits == {"waitsId", "waitsSet", "waitsScores", "waitsBoth", "waitsProfile"}
Waiting(key) == {t \in flights[key].waiting : task[t].pc \in Waits}
Land(key) ==
    \E ok \in BOOLEAN :
       /\ task' = [t \in Tasks |-> IF t \notin Waiting(key) THEN task[t] ELSE
             [task[t] EXCEPT !.got = [ok |-> ok, list |-> flights[key].list,
                names |-> IF ok THEN Nil ELSE ErrorNames(key, t)]]]
       /\ flights' = Without(key)
       /\ UNCHANGED <<bindings, last, said>>
\* A waiter that gives up (its own timeout, a runner that vanished) gets a bare error.
GiveUp(t) ==
    /\ task[t].pc \in Waits /\ task[t].got = Nil
    /\ \E key \in DOMAIN flights :
         /\ t \in flights[key].waiting
         /\ flights' = [flights EXCEPT ![key].waiting = @ \ {t}]
         /\ task' = [task EXCEPT ![t].got = [ok |-> FALSE, list |-> <<>>,
               names |-> IF key[1] \in Typed THEN CmdOf(t).qq ELSE Nil]]
    /\ UNCHANGED <<bindings, last, said>>

Failed(t) == ~task[t].got.ok /\ Say(t, "text", task[t].got.names) /\ UNCHANGED last
GotId(t) ==
    /\ task[t].pc = "waitsId" /\ task[t].got # Nil
    /\ \/ Failed(t)
       \/ /\ task[t].got.ok
          /\ Remember(t, MapOf[CmdOf(t).score])
          /\ \/ /\ CmdOf(t).kind \in {"audio", "preview"}
                /\ Goto(t, CmdOf(t).kind) /\ UNCHANGED said
             \/ /\ CmdOf(t).kind \notin {"audio", "preview"}
                /\ (Goto(t, "stats") /\ UNCHANGED said) \/ Text(t)
    /\ UNCHANGED <<flights, bindings>>
GotSet(t) ==
    /\ task[t].pc = "waitsSet" /\ task[t].got # Nil
    /\ \/ Failed(t)
       \/ /\ task[t].got.ok
          /\ IF CmdOf(t).map # Nil THEN Remember(t, CmdOf(t).map) ELSE UNCHANGED last
          /\ Goto(t, "audio") /\ UNCHANGED said
    /\ UNCHANGED <<flights, bindings>>
GotProfile(t) ==
    /\ task[t].pc = "waitsProfile" /\ task[t].got # Nil
    /\ \/ Failed(t)
       \/ task[t].got.ok /\ Goto(t, "upload") /\ UNCHANGED <<said, last>>
    /\ UNCHANGED <<flights, bindings>>

(* The scores arrived: the map of the first is remembered, the pipeline     *)
(* picks what is shown.                                                     *)
Picked(t) == P!Shown(Resolved(t), task[t].got.list, <<>>)
GotScores(t) ==
    /\ task[t].pc \in {"waitsScores", "waitsBoth"} /\ task[t].got # Nil
    /\ task[t].pc = "waitsBoth" => task[t].stats # Nil
    /\ \/ task[t].pc = "waitsBoth" /\ task[t].stats = "error" /\ Text(t) /\ UNCHANGED last
       \/ /\ task[t].pc = "waitsBoth" => task[t].stats = "ok"
          /\ \/ Failed(t)
             \/ /\ task[t].got.ok
                /\ LET kept == P!PostProcess(CmdOf(t), task[t].got.list) IN
                   IF kept = <<>> THEN UNCHANGED last ELSE Remember(t, kept[1].map)
                /\ IF Picked(t).say \in {"empty", "noMatch", "outOfRange"} THEN Text(t)
                   ELSE /\ task' = [task EXCEPT ![t].shows = Picked(t).rows,
                              ![t].pc = CASE Picked(t).say = "audio" -> "audio"
                                          [] Picked(t).say = "preview" -> "showMap"
                                          [] OTHER -> Picked(t).say]
                        /\ UNCHANGED said
    /\ UNCHANGED <<flights, bindings>>
ShowMap(t) ==
    /\ task[t].pc = "showMap"
    /\ Remember(t, task[t].shows[1].score.map) /\ Goto(t, "preview")
    /\ UNCHANGED <<flights, bindings, said>>

------------------------------------------------------------------------------
(* A card, of one score or of a list, is rendered within its timeout and    *)
(* handed to an upload that nobody waits for; a failure or a timeout says   *)
(* the same as text.                                                        *)
Drawn(t, pc) ==
    /\ task[t].pc = pc
    /\ \/ Goto(t, "upload") /\ UNCHANGED said
       \/ Say(t, "text", Nil)
    /\ UNCHANGED <<flights, bindings, last>>
DrawCard(t) == Drawn(t, "single")
DrawList(t) == Drawn(t, "list")
Upload(t) ==
    /\ task[t].pc = "upload"
    /\ Say(t, "card", Nil) \/ Say(t, "lost", Nil)
    /\ UNCHANGED <<flights, bindings, last>>
(* The preview: download, parsing, mods and conversion, then the drawing,   *)
(* may each fail with a text; a failed upload is only logged.               *)
ReadMap(t) ==
    /\ task[t].pc = "preview"
    /\ Text(t) \/ (Goto(t, "draws") /\ UNCHANGED said)
    /\ UNCHANGED <<flights, bindings, last>>
DrawPreview(t) ==
    /\ task[t].pc = "draws"
    /\ Text(t) \/ (Goto(t, "upload") /\ UNCHANGED said)
    /\ UNCHANGED <<flights, bindings, last>>
(* The audio: a failed upload is told, also when the chat has got it and    *)
(* only the confirmation was lost.                                          *)
DownloadAudio(t) ==
    /\ task[t].pc = "audio"
    /\ Text(t) \/ (Goto(t, "sends") /\ UNCHANGED said)
    /\ UNCHANGED <<flights, bindings, last>>
SendAudio(t) ==
    /\ task[t].pc = "sends"
    /\ \/ Say(t, "record", Nil)
       \/ Text(t)
       \/ /\ said' = [said EXCEPT ![t] = <<[what |-> "record", names |-> Nil],
                                           [what |-> "text", names |-> CmdOf(t).qq]>>]
          /\ Goto(t, "done")
    /\ UNCHANGED <<flights, bindings, last>>

------------------------------------------------------------------------------
Day(h) == /\ last[h] # Nil /\ last[h].fresh
          /\ last' = [last EXCEPT ![h].fresh = FALSE]
          /\ UNCHANGED <<task, flights, bindings, said>>
Works(t) == \/ NeedMap(t) \/ Replies(t) \/ AskById(t) \/ AskMapset(t) \/ WhoByName(t) \/ WhoByQq(t)
            \/ Upstream(t) \/ Stats(t) \/ AskScores(t) \/ OwnStats(t) \/ AskProfile(t)
            \/ GotId(t) \/ GotSet(t) \/ GotProfile(t) \/ GotScores(t) \/ ShowMap(t)
            \/ DrawCard(t) \/ DrawList(t) \/ Upload(t) \/ ReadMap(t) \/ DrawPreview(t)
            \/ DownloadAudio(t) \/ SendAudio(t)
Next == \/ \E t \in Tasks, c \in Commands : Start(t, c)
        \/ \E t \in Tasks : Works(t) \/ GiveUp(t)
        \/ \E key \in DOMAIN flights : Land(key)
        \/ \E q \in DOMAIN bindings, u \in Users : Bind(q, u)
        \/ \E h \in DOMAIN last : Day(h)
Spec == Init /\ [][Next]_vars
FairSpec == Spec /\ \A t \in Tasks : WF_vars(Works(t))
                 /\ WF_vars(\E key \in DOMAIN flights : Land(key))

------------------------------------------------------------------------------
(* A handler that waits for a shared request is given what it would have    *)
(* been given alone: the key of the table tells apart every two requests    *)
(* whose answers differ.                                                    *)
SharedAnswerFits ==
    \A t \in Tasks : task[t].pc \in {"waitsScores", "waitsBoth"} /\ task[t].got # Nil =>
        (task[t].got.ok => task[t].got.list = Listed(t))

(* !s without an id shows scores of the map the chat remembered when the    *)
(* command came, whatever other commands make it remember meanwhile; with   *)
(* an id, of that map.                                                      *)
OneMapThroughout ==
    \A t \in Tasks : CmdOf(t) # Nil =>
        \A i \in DOMAIN task[t].shows :
            (CmdOf(t).kind = "onMap" \/ CmdOf(t).map # Nil)
                => task[t].shows[i].score.map = task[t].map

(* Whatever requests are shared between chats, a chat remembers only maps   *)
(* its own commands named, or lists of its own commands begin with or show. *)
MapsMeant(t) ==
    IF CmdOf(t) = Nil THEN {}
    ELSE {CmdOf(t).map, task[t].map}
         \cup {MapOf[CmdOf(t).score] : x \in {1} \ (IF CmdOf(t).score = Nil THEN {1} ELSE {})}
         \cup (IF task[t].user = Nil THEN {}
               ELSE {Scores[task[t].user][i].map : i \in DOMAIN Scores[task[t].user]})
RememberedOfThisChat ==
    \A h \in DOMAIN last : last[h] # Nil =>
        \E t \in Tasks : /\ CmdOf(t) # Nil /\ CmdOf(t).chat = h
                         /\ last[h].map \in MapsMeant(t)

ChatsKeepTheirMap == OneMapThroughout /\ RememberedOfThisChat

(* However lookups of the upstream bots and commands of the users overlap,  *)
(* no user is bound to two QQs.                                             *)
OneQqPerBoundUser ==
    \A q, r \in DOMAIN bindings : bindings[q] # Nil /\ bindings[q] = bindings[r] => q = r

(* No query is under way: every query ends, although the requests it waits  *)
(* for belong to others.                                                    *)
AllAnswered == \A t \in Tasks : task[t].pc \in {"new", "done"}
==============================================================================
