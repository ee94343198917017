-------------------------- MODULE RequestDedupProofs --------------------------
(***************************************************************************)
(* Proofs about RequestDedup, for every set of callers, keys and entries.  *)
(***************************************************************************)
EXTENDS RequestDedup, TLAPS

Types ==
    /\ map \in [Keys -> Entries \union {NoEntry}]
    /\ entry \in [Entries -> Entry]
    /\ caller \in [Callers -> Caller]
    /\ orphans \subseteq Entries

(* A caller at work holds an entry of its key.                             *)
HoldsItsKey ==
    \A c \in Callers : caller[c].pc # "idle" =>
        /\ caller[c].key \in Keys /\ caller[c].entry \in Entries
        /\ entry[caller[c].entry].key = caller[c].key

MapsItsKey == \A k \in Keys : map[k] # NoEntry => entry[map[k]].key = k

(* The entry of a creator, and one that nobody has claimed yet, is in the  *)
(* map.                                                                    *)
CreatorIsMapped ==
    \A c \in Callers : IsCreator(c) =>
        map[caller[c].key] = caller[c].entry /\ entry[caller[c].entry].claimed
UnclaimedIsMapped ==
    \A c \in Callers : caller[c].pc = "claim" /\ ~entry[caller[c].entry].claimed =>
        map[caller[c].key] = caller[c].entry

OneCreator ==
    \A c, d \in Callers :
        IsCreator(c) /\ IsCreator(d) /\ caller[c].entry = caller[d].entry => c = d

(* A running task that is no orphan is awaited.                            *)
RunIsAwaited ==
    \A e \in Entries : entry[e].task = "running" /\ e \notin orphans =>
        \E c \in Callers : caller[c].pc = "await" /\ caller[c].entry = e

OpenIsAttended ==
    \A e \in Entries : entry[e].claimed /\ ~entry[e].closed =>
        \E c \in Callers : caller[c].pc \in {"await", "close"} /\ caller[c].entry = e

WaitersFollow == \A c \in Callers : caller[c].pc = "wait" => entry[caller[c].entry].claimed

(* An entry is allocated before it is claimed, and claimed before it runs. *)
ClaimedBeforeRun ==
    \A e \in Entries : /\ Fresh(e) => ~entry[e].claimed
                       /\ ~entry[e].claimed => entry[e].task = "none"

(* The inductive invariant.                                                *)
IInv ==
    /\ Types /\ HoldsItsKey /\ MapsItsKey /\ MapIsLive
    /\ CreatorIsMapped /\ UnclaimedIsMapped /\ OneCreator
    /\ RunIsAwaited /\ OpenIsAttended /\ WaitersFollow /\ ClaimedBeforeRun

LEMMA NullTypes == Unused \in Entry /\ Resting \in Caller
BY DEF Unused, Entry, Resting, Caller

(* Updates of one field keep the types.                                    *)
LEMMA EntryTypes ==
    ASSUME NEW x \in Entry
    PROVE  /\ \A k \in Keys : [x EXCEPT !.key = k] \in Entry
           /\ [x EXCEPT !.claimed = TRUE, !.task = "running"] \in Entry
           /\ \A o \in Outcomes : [x EXCEPT !.task = o] \in Entry /\ [x EXCEPT !.result = o] \in Entry
           /\ [x EXCEPT !.closed = TRUE] \in Entry
BY DEF Entry, Outcomes

LEMMA CallerTypes ==
    ASSUME NEW x \in Caller
    PROVE  /\ \A pc \in {"idle", "claim", "wait", "await", "close", "remove"} :
                [x EXCEPT !.pc = pc] \in Caller
           /\ \A a \in {"none", "abandoned"} \union Outcomes :
                [x EXCEPT !.pc = "idle", !.answer = a] \in Caller
BY DEF Caller

LEMMA InvInit == Init => IInv
<1> SUFFICES ASSUME Init PROVE IInv
  OBVIOUS
<1>1. Types
  BY NullTypes DEF Init, Types
<1>2. \A c \in Callers : caller[c].pc = "idle"
  BY DEF Init, Resting
<1>3. \A e \in Entries : ~entry[e].claimed /\ entry[e].task = "none"
  BY DEF Init, Unused
<1>4. \A k \in Keys : map[k] = NoEntry
  BY DEF Init
<1>5. QED
  BY <1>1, <1>2, <1>3, <1>4
   DEF IInv, HoldsItsKey, MapsItsKey, MapIsLive, CreatorIsMapped, UnclaimedIsMapped,
       OneCreator, RunIsAwaited, OpenIsAttended, WaitersFollow, ClaimedBeforeRun, IsCreator

LEMMA LookupStep ==
    ASSUME IInv, NEW c \in Callers, NEW k \in Keys, Lookup(c, k)
    PROVE  IInv'
<1> USE NullAssumption DEF IInv, Lookup
<1>0. PICK e \in Entries :
         /\ \/ map[k] = e /\ UNCHANGED <<map, entry>>
            \/ /\ map[k] = NoEntry /\ Fresh(e)
               /\ map'   = [map EXCEPT ![k] = e]
               /\ entry' = [entry EXCEPT ![e].key = k]
         /\ caller' = [caller EXCEPT ![c] =
                         [pc |-> "claim", key |-> k, entry |-> e, answer |-> "none"]]
  OBVIOUS
<1>1. Types'
  <2>1. [entry[e] EXCEPT !.key = k] \in Entry
    BY EntryTypes DEF Types
  <2>2. [pc |-> "claim", key |-> k, entry |-> e, answer |-> "none"] \in Caller
    BY DEF Caller
  <2>3. QED
    BY <1>0, <2>1, <2>2 DEF Types
<1>2. HoldsItsKey'
  <2> SUFFICES ASSUME NEW d \in Callers, caller'[d].pc # "idle"
               PROVE  /\ caller'[d].key \in Keys /\ caller'[d].entry \in Entries
                      /\ entry'[caller'[d].entry].key = caller'[d].key
    BY DEF HoldsItsKey
  <2>1. CASE d = c
    BY <2>1, <1>0 DEF Types, Entry, MapsItsKey
  <2>2. CASE d # c
    <3>1. /\ caller'[d] = caller[d] /\ caller[d].key \in Keys /\ caller[d].entry \in Entries
          /\ entry[caller[d].entry].key = caller[d].key
      BY <2>2, <1>0 DEF Types, HoldsItsKey
    <3>2. entry'[caller[d].entry] = entry[caller[d].entry]
      BY <3>1, <1>0 DEF Types, Fresh
    <3>3. QED
      BY <3>1, <3>2
  <2>3. QED
    BY <2>1, <2>2
<1>3. MapsItsKey'
  <2> SUFFICES ASSUME NEW q \in Keys, map'[q] # NoEntry PROVE entry'[map'[q]].key = q
    BY DEF MapsItsKey
  <2>1. CASE q = k
    BY <2>1, <1>0 DEF Types, Entry, MapsItsKey
  <2>2. CASE q # k
    <3>1. map'[q] = map[q] /\ map[q] \in Entries /\ entry[map[q]].key = q
      BY <2>2, <1>0 DEF Types, MapsItsKey
    <3>2. entry'[map[q]] = entry[map[q]]
      BY <3>1, <1>0 DEF Types, Fresh
    <3>3. QED
      BY <3>1, <3>2
  <2>3. QED
    BY <2>1, <2>2
<1>4. MapIsLive'
  <2> SUFFICES ASSUME NEW q \in Keys, map'[q] # NoEntry
               PROVE  \E d \in Callers : /\ caller'[d].entry = map'[q]
                                         /\ IF entry'[map'[q]].claimed THEN IsCreator(d)'
                                            ELSE caller'[d].pc = "claim"
    BY DEF MapIsLive
  <2>1. CASE map[q] # NoEntry
    <3>1. PICK d \in Callers : /\ caller[d].entry = map[q]
                               /\ IF entry[map[q]].claimed THEN IsCreator(d)
                                  ELSE caller[d].pc = "claim"
      BY <2>1 DEF MapIsLive
    <3>2. d # c /\ caller'[d] = caller[d]
      BY <3>1, <1>0 DEF Types, IsCreator
    <3>3. map'[q] = map[q] /\ map[q] \in Entries
      BY <2>1, <1>0 DEF Types
    <3>4. entry'[map[q]].claimed = entry[map[q]].claimed
      BY <3>3, <1>0 DEF Types, Entry
    <3>5. QED
      BY <3>1, <3>2, <3>3, <3>4 DEF IsCreator
  <2>2. CASE map[q] = NoEntry
    <3>1. q = k /\ map'[q] = e /\ Fresh(e) /\ entry' = [entry EXCEPT ![e].key = k]
      BY <2>2, <1>0 DEF Types
    <3>2. ~entry'[e].claimed
      BY <3>1 DEF Types, Entry, ClaimedBeforeRun
    <3>3. caller'[c].entry = e /\ caller'[c].pc = "claim"
      BY <1>0 DEF Types
    <3>4. QED
      BY <3>1, <3>2, <3>3
  <2>3. QED
    BY <2>1, <2>2
<1>5. CreatorIsMapped'
  BY <1>0, <1>1 DEF Types, Entry, Caller, CreatorIsMapped, IsCreator, HoldsItsKey, OneCreator, UnclaimedIsMapped
<1>6. UnclaimedIsMapped'
  BY <1>0, <1>1 DEF Types, Entry, Caller, UnclaimedIsMapped, IsCreator, HoldsItsKey, CreatorIsMapped
<1>7. OneCreator'
  BY <1>0, <1>1 DEF Types, Entry, Caller, OneCreator, IsCreator, CreatorIsMapped
<1>8. RunIsAwaited'
  BY <1>0, <1>1 DEF Types, Entry, Caller, RunIsAwaited, ClaimedBeforeRun
<1>9. OpenIsAttended'
  BY <1>0, <1>1 DEF Types, Entry, Caller, OpenIsAttended, WaitersFollow
<1>10. WaitersFollow'
  BY <1>0, <1>1 DEF Types, Entry, Caller, WaitersFollow, HoldsItsKey
<1>11. ClaimedBeforeRun'
  BY <1>0, <1>1 DEF Types, Entry, Caller, ClaimedBeforeRun, CreatorIsMapped, IsCreator, HoldsItsKey, Fresh
<1>12. QED
  BY <1>1, <1>2, <1>3, <1>4, <1>5, <1>6, <1>7, <1>8, <1>9, <1>10, <1>11

LEMMA ClaimFirstStep ==
    ASSUME IInv, NEW c \in Callers, Claim(c), ~entry[caller[c].entry].claimed
    PROVE  IInv'
<1> USE NullAssumption DEF IInv, Claim, Goto
<1>1. Types'
  <2>1. caller[c].entry \in Entries /\ entry[caller[c].entry] \in Entry /\ caller[c] \in Caller
    BY DEF Types, HoldsItsKey
  <2>2. /\ entry' = [entry EXCEPT ![caller[c].entry] =
                        [entry[caller[c].entry] EXCEPT !.claimed = TRUE, !.task = "running"]]
        /\ caller' = [caller EXCEPT ![c] = [caller[c] EXCEPT !.pc = "await"]]
    BY <2>1 DEF Types
  <2>3. QED
    BY <2>1, <2>2, EntryTypes, CallerTypes DEF Types
<1>2. HoldsItsKey'
  BY <1>1 DEF Types, Entry, Caller, HoldsItsKey, MapsItsKey, MapIsLive
<1>3. MapsItsKey'
  BY <1>1 DEF Types, Entry, Caller, MapsItsKey, HoldsItsKey
<1>4. MapIsLive'
  BY <1>1 DEF Types, Entry, Caller, MapIsLive, IsCreator, HoldsItsKey, MapsItsKey, CreatorIsMapped
<1>5. CreatorIsMapped'
  <2> SUFFICES ASSUME NEW d \in Callers, IsCreator(d)'
               PROVE  map'[caller'[d].key] = caller'[d].entry /\ entry'[caller'[d].entry].claimed
    BY DEF CreatorIsMapped
  <2>1. CASE d = c
    <3>1. caller'[d].key = caller[c].key /\ caller'[d].entry = caller[c].entry
      BY <2>1 DEF Types, Caller
    <3>2. map[caller[c].key] = caller[c].entry /\ caller[c].entry \in Entries
      BY DEF UnclaimedIsMapped, HoldsItsKey
    <3>3. entry'[caller[c].entry].claimed
      BY <3>2 DEF Types, Entry
    <3>4. QED
      BY <3>1, <3>2, <3>3
  <2>2. CASE d # c
    <3>1. IsCreator(d) /\ caller'[d] = caller[d]
      BY <2>2 DEF Types, IsCreator
    <3>2. caller[d].entry \in Entries /\ map[caller[d].key] = caller[d].entry
          /\ entry[caller[d].entry].claimed
      BY <3>1 DEF CreatorIsMapped, HoldsItsKey, IsCreator
    <3>3. entry'[caller[d].entry].claimed
      BY <3>2 DEF Types, Entry
    <3>4. QED
      BY <3>1, <3>2, <3>3
  <2>3. QED
    BY <2>1, <2>2
<1>6. UnclaimedIsMapped'
  BY <1>1 DEF Types, Entry, Caller, UnclaimedIsMapped, IsCreator, HoldsItsKey, CreatorIsMapped
<1>7. OneCreator'
  BY <1>1 DEF Types, Entry, Caller, OneCreator, IsCreator, CreatorIsMapped
<1>8. RunIsAwaited'
  <2> SUFFICES ASSUME NEW e \in Entries, entry'[e].task = "running", e \notin orphans'
               PROVE  \E d \in Callers : caller'[d].pc = "await" /\ caller'[d].entry = e
    BY DEF RunIsAwaited
  <2>1. CASE e = caller[c].entry
    BY <2>1 DEF Types, Caller
  <2>2. CASE e # caller[c].entry
    BY <2>2 DEF Types, Caller, Entry, RunIsAwaited
  <2>3. QED
    BY <2>1, <2>2
<1>9. OpenIsAttended'
  <2> SUFFICES ASSUME NEW e \in Entries, entry'[e].claimed, ~entry'[e].closed
               PROVE  \E d \in Callers : /\ caller'[d].pc \in {"await", "close"}
                                         /\ caller'[d].entry = e
    BY DEF OpenIsAttended
  <2>1. CASE e = caller[c].entry
    BY <2>1 DEF Types, Caller
  <2>2. CASE e # caller[c].entry
    <3>1. entry'[e] = entry[e]
      BY <2>2 DEF Types
    <3>2. PICK d \in Callers : caller[d].pc \in {"await", "close"} /\ caller[d].entry = e
      BY <3>1 DEF OpenIsAttended
    <3>3. d # c
      BY <3>2
    <3>4. QED
      BY <3>2, <3>3 DEF Types
  <2>3. QED
    BY <2>1, <2>2
<1>10. WaitersFollow'
  BY <1>1 DEF Types, Entry, Caller, WaitersFollow, HoldsItsKey
<1>11. ClaimedBeforeRun'
  BY <1>1 DEF Types, Entry, Caller, ClaimedBeforeRun, CreatorIsMapped, IsCreator, HoldsItsKey, Fresh
<1>12. QED
  BY <1>1, <1>2, <1>3, <1>4, <1>5, <1>6, <1>7, <1>8, <1>9, <1>10, <1>11

LEMMA ClaimLateStep ==
    ASSUME IInv, NEW c \in Callers, Claim(c), entry[caller[c].entry].claimed
    PROVE  IInv'
<1> USE NullAssumption DEF IInv, Claim, Goto
<1>1. Types'
  <2>1. [caller[c] EXCEPT !.pc = "wait"] \in Caller
    BY CallerTypes DEF Types
  <2>2. QED
    BY <2>1 DEF Types
<1>2. HoldsItsKey'
  BY <1>1 DEF Types, Entry, Caller, HoldsItsKey, MapsItsKey, MapIsLive
<1>3. MapsItsKey'
  BY <1>1 DEF Types, Entry, Caller, MapsItsKey, HoldsItsKey
<1>4. MapIsLive'
  BY <1>1 DEF Types, Entry, Caller, MapIsLive, IsCreator, HoldsItsKey, MapsItsKey, CreatorIsMapped
<1>5. CreatorIsMapped'
  BY <1>1 DEF Types, Entry, Caller, CreatorIsMapped, IsCreator, HoldsItsKey, OneCreator, UnclaimedIsMapped
<1>6. UnclaimedIsMapped'
  BY <1>1 DEF Types, Entry, Caller, UnclaimedIsMapped, IsCreator, HoldsItsKey, CreatorIsMapped
<1>7. OneCreator'
  BY <1>1 DEF Types, Entry, Caller, OneCreator, IsCreator, CreatorIsMapped
<1>8. RunIsAwaited'
  BY <1>1 DEF Types, Entry, Caller, RunIsAwaited, ClaimedBeforeRun
<1>9. OpenIsAttended'
  BY <1>1 DEF Types, Entry, Caller, OpenIsAttended, WaitersFollow
<1>10. WaitersFollow'
  BY <1>1 DEF Types, Entry, Caller, WaitersFollow, HoldsItsKey
<1>11. ClaimedBeforeRun'
  BY <1>1 DEF Types, Entry, Caller, ClaimedBeforeRun, CreatorIsMapped, IsCreator, HoldsItsKey, Fresh
<1>12. QED
  BY <1>1, <1>2, <1>3, <1>4, <1>5, <1>6, <1>7, <1>8, <1>9, <1>10, <1>11

LEMMA TaskEndsStep ==
    ASSUME IInv, NEW e \in Entries, TaskEnds(e)
    PROVE  IInv'
<1> USE NullAssumption DEF IInv, TaskEnds
<1>1. Types'
  <2>1. \A o \in Outcomes : [entry[e] EXCEPT !.task = o] \in Entry
    BY EntryTypes DEF Types
  <2>2. QED
    BY <2>1 DEF Types
<1>2. HoldsItsKey'
  BY <1>1 DEF Types, Entry, Caller, HoldsItsKey, MapsItsKey, MapIsLive
<1>3. MapsItsKey'
  BY <1>1 DEF Types, Entry, Caller, MapsItsKey, HoldsItsKey
<1>4. MapIsLive'
  BY <1>1 DEF Types, Entry, Caller, MapIsLive, IsCreator, HoldsItsKey, MapsItsKey, CreatorIsMapped
<1>5. CreatorIsMapped'
  BY <1>1 DEF Types, Entry, Caller, CreatorIsMapped, IsCreator, HoldsItsKey, OneCreator, UnclaimedIsMapped
<1>6. UnclaimedIsMapped'
  BY <1>1 DEF Types, Entry, Caller, UnclaimedIsMapped, IsCreator, HoldsItsKey, CreatorIsMapped
<1>7. OneCreator'
  BY <1>1 DEF Types, Entry, Caller, OneCreator, IsCreator, CreatorIsMapped
<1>8. RunIsAwaited'
  BY <1>1 DEF Types, Entry, Caller, RunIsAwaited, ClaimedBeforeRun
<1>9. OpenIsAttended'
  BY <1>1 DEF Types, Entry, Caller, OpenIsAttended, WaitersFollow
<1>10. WaitersFollow'
  BY <1>1 DEF Types, Entry, Caller, WaitersFollow, HoldsItsKey
<1>11. ClaimedBeforeRun'
  BY <1>1 DEF Types, Entry, Caller, ClaimedBeforeRun, CreatorIsMapped, IsCreator, HoldsItsKey, Fresh
<1>12. QED
  BY <1>1, <1>2, <1>3, <1>4, <1>5, <1>6, <1>7, <1>8, <1>9, <1>10, <1>11

LEMMA ReceiveStep ==
    ASSUME IInv, NEW c \in Callers, Receive(c)
    PROVE  IInv'
<1> USE NullAssumption DEF IInv, Receive, Goto
<1>1. Types'
  <2>1. caller[c].entry \in Entries /\ entry[caller[c].entry] \in Entry /\ caller[c] \in Caller
    BY DEF Types, HoldsItsKey
  <2>2. [entry[caller[c].entry] EXCEPT !.result = entry[caller[c].entry].task] \in Entry
    BY <2>1, EntryTypes
  <2>3. [caller[c] EXCEPT !.pc = "close"] \in Caller
    BY <2>1, CallerTypes
  <2>4. QED
    BY <2>2, <2>3 DEF Types
<1>2. HoldsItsKey'
  BY <1>1 DEF Types, Entry, Caller, HoldsItsKey, MapsItsKey, MapIsLive
<1>3. MapsItsKey'
  BY <1>1 DEF Types, Entry, Caller, MapsItsKey, HoldsItsKey
<1>4. MapIsLive'
  BY <1>1 DEF Types, Entry, Caller, MapIsLive, IsCreator, HoldsItsKey, MapsItsKey, CreatorIsMapped
<1>5. CreatorIsMapped'
  BY <1>1 DEF Types, Entry, Caller, CreatorIsMapped, IsCreator, HoldsItsKey, OneCreator, UnclaimedIsMapped
<1>6. UnclaimedIsMapped'
  BY <1>1 DEF Types, Entry, Caller, UnclaimedIsMapped, IsCreator, HoldsItsKey, CreatorIsMapped
<1>7. OneCreator'
  BY <1>1 DEF Types, Entry, Caller, OneCreator, IsCreator, CreatorIsMapped
<1>8. RunIsAwaited'
  <2> SUFFICES ASSUME NEW e \in Entries, entry'[e].task = "running", e \notin orphans'
               PROVE  \E d \in Callers : caller'[d].pc = "await" /\ caller'[d].entry = e
    BY DEF RunIsAwaited
  <2>1. entry[e].task = "running" /\ e \notin orphans
    BY DEF Types, Entry
  <2>2. PICK d \in Callers : caller[d].pc = "await" /\ caller[d].entry = e
    BY <2>1 DEF RunIsAwaited
  <2>3. d # c
    BY <2>1, <2>2 DEF Outcomes
  <2>4. caller'[d] = caller[d]
    BY <2>3 DEF Types
  <2>5. QED
    BY <2>2, <2>4
<1>9. OpenIsAttended'
  BY <1>1 DEF Types, Entry, Caller, OpenIsAttended, WaitersFollow
<1>10. WaitersFollow'
  BY <1>1 DEF Types, Entry, Caller, WaitersFollow, HoldsItsKey
<1>11. ClaimedBeforeRun'
  BY <1>1 DEF Types, Entry, Caller, ClaimedBeforeRun, CreatorIsMapped, IsCreator, HoldsItsKey, Fresh
<1>12. QED
  BY <1>1, <1>2, <1>3, <1>4, <1>5, <1>6, <1>7, <1>8, <1>9, <1>10, <1>11

LEMMA CancelStep ==
    ASSUME IInv, NEW c \in Callers, Cancel(c)
    PROVE  IInv'
<1> USE NullAssumption DEF IInv, Cancel, Goto
<1>1. Types'
  <2>1. [caller[c] EXCEPT !.pc = "close"] \in Caller /\ caller[c].entry \in Entries
    BY CallerTypes DEF Types, HoldsItsKey
  <2>2. QED
    BY <2>1 DEF Types
<1>2. HoldsItsKey'
  BY <1>1 DEF Types, Entry, Caller, HoldsItsKey, MapsItsKey, MapIsLive
<1>3. MapsItsKey'
  BY <1>1 DEF Types, Entry, Caller, MapsItsKey, HoldsItsKey
<1>4. MapIsLive'
  BY <1>1 DEF Types, Entry, Caller, MapIsLive, IsCreator, HoldsItsKey, MapsItsKey, CreatorIsMapped
<1>5. CreatorIsMapped'
  BY <1>1 DEF Types, Entry, Caller, CreatorIsMapped, IsCreator, HoldsItsKey, OneCreator, UnclaimedIsMapped
<1>6. UnclaimedIsMapped'
  BY <1>1 DEF Types, Entry, Caller, UnclaimedIsMapped, IsCreator, HoldsItsKey, CreatorIsMapped
<1>7. OneCreator'
  BY <1>1 DEF Types, Entry, Caller, OneCreator, IsCreator, CreatorIsMapped
<1>8. RunIsAwaited'
  <2> SUFFICES ASSUME NEW e \in Entries, entry'[e].task = "running", e \notin orphans'
               PROVE  \E d \in Callers : caller'[d].pc = "await" /\ caller'[d].entry = e
    BY DEF RunIsAwaited
  <2>1. entry[e].task = "running" /\ e \notin orphans /\ e # caller[c].entry
    OBVIOUS
  <2>2. PICK d \in Callers : caller[d].pc = "await" /\ caller[d].entry = e
    BY <2>1 DEF RunIsAwaited
  <2>3. d # c
    BY <2>1, <2>2
  <2>4. caller'[d] = caller[d]
    BY <2>3 DEF Types
  <2>5. QED
    BY <2>2, <2>4
<1>9. OpenIsAttended'
  BY <1>1 DEF Types, Entry, Caller, OpenIsAttended, WaitersFollow
<1>10. WaitersFollow'
  BY <1>1 DEF Types, Entry, Caller, WaitersFollow, HoldsItsKey
<1>11. ClaimedBeforeRun'
  BY <1>1 DEF Types, Entry, Caller, ClaimedBeforeRun, CreatorIsMapped, IsCreator, HoldsItsKey, Fresh
<1>12. QED
  BY <1>1, <1>2, <1>3, <1>4, <1>5, <1>6, <1>7, <1>8, <1>9, <1>10, <1>11

LEMMA CloseStep ==
    ASSUME IInv, NEW c \in Callers, Close(c)
    PROVE  IInv'
<1> USE NullAssumption DEF IInv, Close, Goto
<1>1. Types'
  <2>1. caller[c].entry \in Entries /\ entry[caller[c].entry] \in Entry /\ caller[c] \in Caller
    BY DEF Types, HoldsItsKey
  <2>2. [entry[caller[c].entry] EXCEPT !.closed = TRUE] \in Entry
    BY <2>1, EntryTypes
  <2>3. [caller[c] EXCEPT !.pc = "remove"] \in Caller
    BY <2>1, CallerTypes
  <2>4. QED
    BY <2>2, <2>3 DEF Types
<1>2. HoldsItsKey'
  BY <1>1 DEF Types, Entry, Caller, HoldsItsKey, MapsItsKey, MapIsLive
<1>3. MapsItsKey'
  BY <1>1 DEF Types, Entry, Caller, MapsItsKey, HoldsItsKey
<1>4. MapIsLive'
  BY <1>1 DEF Types, Entry, Caller, MapIsLive, IsCreator, HoldsItsKey, MapsItsKey, CreatorIsMapped
<1>5. CreatorIsMapped'
  BY <1>1 DEF Types, Entry, Caller, CreatorIsMapped, IsCreator, HoldsItsKey, OneCreator, UnclaimedIsMapped
<1>6. UnclaimedIsMapped'
  BY <1>1 DEF Types, Entry, Caller, UnclaimedIsMapped, IsCreator, HoldsItsKey, CreatorIsMapped
<1>7. OneCreator'
  BY <1>1 DEF Types, Entry, Caller, OneCreator, IsCreator, CreatorIsMapped
<1>8. RunIsAwaited'
  BY <1>1 DEF Types, Entry, Caller, RunIsAwaited, ClaimedBeforeRun
<1>9. OpenIsAttended'
  BY <1>1 DEF Types, Entry, Caller, OpenIsAttended, WaitersFollow
<1>10. WaitersFollow'
  BY <1>1 DEF Types, Entry, Caller, WaitersFollow, HoldsItsKey
<1>11. ClaimedBeforeRun'
  BY <1>1 DEF Types, Entry, Caller, ClaimedBeforeRun, CreatorIsMapped, IsCreator, HoldsItsKey, Fresh
<1>12. QED
  BY <1>1, <1>2, <1>3, <1>4, <1>5, <1>6, <1>7, <1>8, <1>9, <1>10, <1>11

LEMMA RemoveStep ==
    ASSUME IInv, NEW c \in Callers, Remove(c)
    PROVE  IInv'
<1> USE NullAssumption DEF IInv, Remove
<1>1. Types'
  <2>1. caller[c].entry \in Entries /\ entry[caller[c].entry] \in Entry /\ caller[c] \in Caller
    BY DEF Types, HoldsItsKey
  <2>2. (entry[caller[c].entry].result) \in {"none", "abandoned"} \union Outcomes
    BY <2>1 DEF Entry
  <2>3. [caller[c] EXCEPT !.pc = "idle", !.answer = entry[caller[c].entry].result] \in Caller
    BY <2>1, <2>2, CallerTypes
  <2>4. QED
    BY <2>3 DEF Types
<1>2. HoldsItsKey'
  BY <1>1 DEF Types, Entry, Caller, HoldsItsKey, MapsItsKey, MapIsLive
<1>3. MapsItsKey'
  BY <1>1 DEF Types, Entry, Caller, MapsItsKey, HoldsItsKey
<1>4. MapIsLive'
  BY <1>1 DEF Types, Entry, Caller, MapIsLive, IsCreator, HoldsItsKey, MapsItsKey, CreatorIsMapped
<1>5. CreatorIsMapped'
  BY <1>1 DEF Types, Entry, Caller, CreatorIsMapped, IsCreator, HoldsItsKey, OneCreator, UnclaimedIsMapped
<1>6. UnclaimedIsMapped'
  BY <1>1 DEF Types, Entry, Caller, UnclaimedIsMapped, IsCreator, HoldsItsKey, CreatorIsMapped
<1>7. OneCreator'
  BY <1>1 DEF Types, Entry, Caller, OneCreator, IsCreator, CreatorIsMapped
<1>8. RunIsAwaited'
  BY <1>1 DEF Types, Entry, Caller, RunIsAwaited, ClaimedBeforeRun
<1>9. OpenIsAttended'
  BY <1>1 DEF Types, Entry, Caller, OpenIsAttended, WaitersFollow
<1>10. WaitersFollow'
  BY <1>1 DEF Types, Entry, Caller, WaitersFollow, HoldsItsKey
<1>11. ClaimedBeforeRun'
  BY <1>1 DEF Types, Entry, Caller, ClaimedBeforeRun, CreatorIsMapped, IsCreator, HoldsItsKey, Fresh
<1>12. QED
  BY <1>1, <1>2, <1>3, <1>4, <1>5, <1>6, <1>7, <1>8, <1>9, <1>10, <1>11

LEMMA AnswerStep ==
    ASSUME IInv, NEW c \in Callers, Answer(c)
    PROVE  IInv'
<1> USE NullAssumption DEF IInv, Answer, Answered
<1>1. Types'
  <2>1. caller[c].entry \in Entries /\ entry[caller[c].entry] \in Entry /\ caller[c] \in Caller
    BY DEF Types, HoldsItsKey
  <2>2. (IF entry[caller[c].entry].result = "none" THEN "abandoned" ELSE entry[caller[c].entry].result) \in {"none", "abandoned"} \union Outcomes
    BY <2>1 DEF Entry
  <2>3. [caller[c] EXCEPT !.pc = "idle", !.answer = IF entry[caller[c].entry].result = "none" THEN "abandoned" ELSE entry[caller[c].entry].result] \in Caller
    BY <2>1, <2>2, CallerTypes
  <2>4. QED
    BY <2>3 DEF Types
<1>2. HoldsItsKey'
  BY <1>1 DEF Types, Entry, Caller, HoldsItsKey, MapsItsKey, MapIsLive
<1>3. MapsItsKey'
  BY <1>1 DEF Types, Entry, Caller, MapsItsKey, HoldsItsKey
<1>4. MapIsLive'
  BY <1>1 DEF Types, Entry, Caller, MapIsLive, IsCreator, HoldsItsKey, MapsItsKey, CreatorIsMapped
<1>5. CreatorIsMapped'
  BY <1>1 DEF Types, Entry, Caller, CreatorIsMapped, IsCreator, HoldsItsKey, OneCreator, UnclaimedIsMapped
<1>6. UnclaimedIsMapped'
  BY <1>1 DEF Types, Entry, Caller, UnclaimedIsMapped, IsCreator, HoldsItsKey, CreatorIsMapped
<1>7. OneCreator'
  BY <1>1 DEF Types, Entry, Caller, OneCreator, IsCreator, CreatorIsMapped
<1>8. RunIsAwaited'
  BY <1>1 DEF Types, Entry, Caller, RunIsAwaited, ClaimedBeforeRun
<1>9. OpenIsAttended'
  BY <1>1 DEF Types, Entry, Caller, OpenIsAttended, WaitersFollow
<1>10. WaitersFollow'
  BY <1>1 DEF Types, Entry, Caller, WaitersFollow, HoldsItsKey
<1>11. ClaimedBeforeRun'
  BY <1>1 DEF Types, Entry, Caller, ClaimedBeforeRun, CreatorIsMapped, IsCreator, HoldsItsKey, Fresh
<1>12. QED
  BY <1>1, <1>2, <1>3, <1>4, <1>5, <1>6, <1>7, <1>8, <1>9, <1>10, <1>11

LEMMA StopWaitingStep ==
    ASSUME IInv, NEW c \in Callers, StopWaiting(c)
    PROVE  IInv'
<1> USE NullAssumption DEF IInv, StopWaiting, Goto
<1>1. Types'
  <2>1. [caller[c] EXCEPT !.pc = "idle"] \in Caller
    BY CallerTypes DEF Types
  <2>2. QED
    BY <2>1 DEF Types
<1>2. HoldsItsKey'
  BY <1>1 DEF Types, Entry, Caller, HoldsItsKey, MapsItsKey, MapIsLive
<1>3. MapsItsKey'
  BY <1>1 DEF Types, Entry, Caller, MapsItsKey, HoldsItsKey
<1>4. MapIsLive'
  BY <1>1 DEF Types, Entry, Caller, MapIsLive, IsCreator, HoldsItsKey, MapsItsKey, CreatorIsMapped
<1>5. CreatorIsMapped'
  BY <1>1 DEF Types, Entry, Caller, CreatorIsMapped, IsCreator, HoldsItsKey, OneCreator, UnclaimedIsMapped
<1>6. UnclaimedIsMapped'
  BY <1>1 DEF Types, Entry, Caller, UnclaimedIsMapped, IsCreator, HoldsItsKey, CreatorIsMapped
<1>7. OneCreator'
  BY <1>1 DEF Types, Entry, Caller, OneCreator, IsCreator, CreatorIsMapped
<1>8. RunIsAwaited'
  BY <1>1 DEF Types, Entry, Caller, RunIsAwaited, ClaimedBeforeRun
<1>9. OpenIsAttended'
  BY <1>1 DEF Types, Entry, Caller, OpenIsAttended, WaitersFollow
<1>10. WaitersFollow'
  BY <1>1 DEF Types, Entry, Caller, WaitersFollow, HoldsItsKey
<1>11. ClaimedBeforeRun'
  BY <1>1 DEF Types, Entry, Caller, ClaimedBeforeRun, CreatorIsMapped, IsCreator, HoldsItsKey, Fresh
<1>12. QED
  BY <1>1, <1>2, <1>3, <1>4, <1>5, <1>6, <1>7, <1>8, <1>9, <1>10, <1>11

LEMMA FreeStep ==
    ASSUME IInv, NEW e \in Entries, Free(e)
    PROVE  IInv'
<1> USE NullAssumption DEF IInv, Free, Fresh, Unused, Resting
<1>1. Types'
  BY NullTypes, EntryTypes, CallerTypes DEF Types
<1>2. HoldsItsKey'
  BY <1>1 DEF Types, Entry, Caller, HoldsItsKey, MapsItsKey, MapIsLive
<1>3. MapsItsKey'
  BY <1>1 DEF Types, Entry, Caller, MapsItsKey, HoldsItsKey
<1>4. MapIsLive'
  BY <1>1 DEF Types, Entry, Caller, MapIsLive, IsCreator, HoldsItsKey, MapsItsKey, CreatorIsMapped
<1>5. CreatorIsMapped'
  BY <1>1 DEF Types, Entry, Caller, CreatorIsMapped, IsCreator, HoldsItsKey, OneCreator, UnclaimedIsMapped
<1>6. UnclaimedIsMapped'
  BY <1>1 DEF Types, Entry, Caller, UnclaimedIsMapped, IsCreator, HoldsItsKey, CreatorIsMapped
<1>7. OneCreator'
  BY <1>1 DEF Types, Entry, Caller, OneCreator, IsCreator, CreatorIsMapped
<1>8. RunIsAwaited'
  BY <1>1 DEF Types, Entry, Caller, RunIsAwaited, ClaimedBeforeRun
<1>9. OpenIsAttended'
  BY <1>1 DEF Types, Entry, Caller, OpenIsAttended, WaitersFollow
<1>10. WaitersFollow'
  BY <1>1 DEF Types, Entry, Caller, WaitersFollow, HoldsItsKey
<1>11. ClaimedBeforeRun'
  BY <1>1 DEF Types, Entry, Caller, ClaimedBeforeRun, CreatorIsMapped, IsCreator, HoldsItsKey, Fresh
<1>12. QED
  BY <1>1, <1>2, <1>3, <1>4, <1>5, <1>6, <1>7, <1>8, <1>9, <1>10, <1>11

LEMMA InvNext == IInv /\ [Next]_vars => IInv'
<1> SUFFICES ASSUME IInv, [Next]_vars PROVE IInv'
  OBVIOUS
<1>1. CASE UNCHANGED vars
  <2> USE <1>1 DEF vars, IInv
  <2>1. Types' /\ HoldsItsKey' /\ MapsItsKey'
    BY DEF Types, HoldsItsKey, MapsItsKey
  <2>2. MapIsLive' /\ CreatorIsMapped' /\ UnclaimedIsMapped' /\ OneCreator'
    BY DEF MapIsLive, CreatorIsMapped, UnclaimedIsMapped, OneCreator, IsCreator
  <2>3. RunIsAwaited' /\ OpenIsAttended' /\ WaitersFollow' /\ ClaimedBeforeRun'
    BY DEF RunIsAwaited, OpenIsAttended, WaitersFollow, ClaimedBeforeRun, Fresh
  <2>4. QED
    BY <2>1, <2>2, <2>3
<1>2. ASSUME NEW c \in Callers, Claim(c) PROVE IInv'
  BY <1>2, ClaimFirstStep, ClaimLateStep
<1>3. QED
  BY <1>1, <1>2, LookupStep, TaskEndsStep, ReceiveStep, CancelStep, CloseStep, RemoveStep,
     AnswerStep, StopWaitingStep, FreeStep DEF Next, Step

(* Every reachable state is well typed.                                    *)
THEOREM TypeCorrect == Spec => []TypeOK
<1>1. IInv => TypeOK
  BY DEF IInv, TypeOK, Types, HoldsItsKey
<1>2. QED
  BY <1>1, InvInit, InvNext, PTL DEF Spec

(* Nothing stays in the map: for any number of callers, in any order of    *)
(* their steps, a mapped entry has a caller that will claim or remove it.  *)
THEOREM MapStaysLive == Spec => []MapIsLive
<1>1. IInv => MapIsLive
  BY DEF IInv
<1>2. QED
  BY <1>1, InvInit, InvNext, PTL DEF Spec

(* No waiter waits for nobody, even when its creator was dropped.          *)
THEOREM WaitersAreServed == Spec => []NobodyWaitsForNobody
<1>1. IInv => NobodyWaitsForNobody
  BY DEF IInv, NobodyWaitsForNobody, WaitersFollow, OpenIsAttended, HoldsItsKey
<1>2. QED
  BY <1>1, InvInit, InvNext, PTL DEF Spec

(* Both together: whoever finds an entry, or waits for one, has somebody   *)
(* who will claim it, close it or take it away.                            *)
THEOREM EntriesAreAttended == Spec => []MapIsAttended
<1>1. MapIsLive /\ NobodyWaitsForNobody => MapIsAttended
  BY DEF MapIsAttended
<1>2. QED
  BY <1>1, MapStaysLive, WaitersAreServed, PTL

(* Without dropped creators a key has one execution at a time: two         *)
(* executions that nobody abandoned are the same.                          *)
THEOREM SingleExecution == Spec => []OneRunUnlessAbandoned
<1>1. ASSUME IInv PROVE OneRunUnlessAbandoned
  <2> SUFFICES ASSUME NEW k \in Keys, NEW e \in Running(k) \ orphans, NEW f \in Running(k) \ orphans
               PROVE  e = f
    BY DEF OneRunUnlessAbandoned
  <2>1. \A x \in Running(k) \ orphans : map[k] = x
    <3> SUFFICES ASSUME NEW x \in Running(k) \ orphans PROVE map[k] = x
      OBVIOUS
    <3>1. PICK c \in Callers : caller[c].pc = "await" /\ caller[c].entry = x
      BY <1>1 DEF IInv, RunIsAwaited, Running
    <3>2. QED
      BY <1>1, <3>1 DEF IInv, CreatorIsMapped, HoldsItsKey, IsCreator, Running
  <2>2. QED
    BY <2>1
<1>2. QED
  BY <1>1, InvInit, InvNext, PTL DEF Spec
------------------------------------------------------------------------------
(* The inductive invariant behind AnswersAreShared: what an entry stores   *)
(* is the outcome of its task, it is closed without a result only when its *)
(* creator was dropped, and a caller answers at the end, with what it read.*)

EntriesAreHonest ==
    \A e \in Entries :
        /\ entry[e].result \in Outcomes => entry[e].task = entry[e].result
        /\ entry[e].closed => entry[e].result \in Outcomes \/ e \in orphans

CallersAreHonest ==
    \A c \in Callers :
        /\ caller[c].pc # "idle" => caller[c].answer = "none"
        /\ caller[c].pc = "close" =>
             entry[caller[c].entry].result \in Outcomes \/ caller[c].entry \in orphans
        /\ caller[c].answer \in Outcomes =>
             caller[c].entry \in Entries /\ entry[caller[c].entry].task = caller[c].answer
        /\ caller[c].answer = "abandoned" => caller[c].entry \in orphans

AnswerInv == EntriesAreHonest /\ CallersAreHonest

LEMMA AnswerInit == Init => AnswerInv
BY DEF Init, AnswerInv, EntriesAreHonest, CallersAreHonest, Unused, Resting, Outcomes

(* A step that changes the entry of a caller at work, or none, and then    *)
(* that caller.                                                            *)
LEMMA CallerSteps ==
    ASSUME IInv, AnswerInv, NEW c \in Callers,
           \/ Claim(c) \/ Receive(c) \/ Close(c) \/ Remove(c) \/ Answer(c)
           \/ Cancel(c) \/ StopWaiting(c)
    PROVE  AnswerInv'
<1>1. /\ caller[c] \in Caller /\ caller[c].entry \in Entries /\ entry[caller[c].entry] \in Entry
      /\ entry \in [Entries -> Entry] /\ caller \in [Callers -> Caller]
      /\ caller[c].pc # "idle" /\ caller[c].answer = "none"
  BY DEF IInv, Types, HoldsItsKey, AnswerInv, CallersAreHonest,
         Claim, Receive, Close, Remove, Answer, Answered, Cancel, StopWaiting
<1>2. EntriesAreHonest /\ CallersAreHonest
  BY DEF AnswerInv
<1> USE DEF Goto, Entry, Caller, Outcomes
<1>3. CASE Claim(c) \/ StopWaiting(c)
  <2>1. orphans' = orphans /\ caller'[c].pc \in {"idle", "wait", "await"}
        /\ caller'[c].answer = "none" /\ caller'[c].entry = caller[c].entry
        /\ \A d \in Callers \ {c} : caller'[d] = caller[d]
    BY <1>1, <1>3 DEF Claim, StopWaiting
  <2>2. ASSUME NEW e \in Entries
        PROVE  /\ entry'[e].result = entry[e].result /\ entry'[e].closed = entry[e].closed
               /\ entry[e].task # "none" => entry'[e].task = entry[e].task
    BY <1>1, <1>3 DEF Claim, StopWaiting, IInv, ClaimedBeforeRun
  <2>3. EntriesAreHonest'
    BY <1>2, <2>1, <2>2 DEF EntriesAreHonest
  <2>4. ASSUME NEW d \in Callers \ {c}
        PROVE  /\ caller[d].pc = "close" => caller[d].entry \in Entries
               /\ caller[d].answer \in Outcomes =>
                    caller[d].entry \in Entries /\ entry[caller[d].entry].task # "none"
    BY <1>2 DEF IInv, HoldsItsKey, CallersAreHonest
  <2>5. CallersAreHonest'
    <3> SUFFICES ASSUME NEW d \in Callers
                 PROVE  /\ caller'[d].pc # "idle" => caller'[d].answer = "none"
                        /\ caller'[d].pc = "close" => entry'[caller'[d].entry].result \in Outcomes
                                                      \/ caller'[d].entry \in orphans'
                        /\ caller'[d].answer \in Outcomes =>
                             /\ caller'[d].entry \in Entries
                             /\ entry'[caller'[d].entry].task = caller'[d].answer
                        /\ caller'[d].answer = "abandoned" => caller'[d].entry \in orphans'
      BY DEF CallersAreHonest
    <3>1. CASE d = c
      BY <3>1, <2>1
    <3>2. CASE d # c
      BY <3>2, <1>2, <2>1, <2>2, <2>4 DEF CallersAreHonest
    <3>3. QED
      BY <3>1, <3>2
  <2>6. QED
    BY <2>3, <2>5 DEF AnswerInv
<1>4. CASE Receive(c)
  <2>1. EntriesAreHonest'
    BY <1>1, <1>2, <1>4 DEF EntriesAreHonest, Receive
  <2>2. CallersAreHonest'
    BY <1>1, <1>2, <1>4 DEF CallersAreHonest, Receive, IInv, HoldsItsKey
  <2>3. QED
    BY <2>1, <2>2 DEF AnswerInv
<1>5. CASE Close(c)
  <2>1. EntriesAreHonest'
    BY <1>1, <1>2, <1>5 DEF EntriesAreHonest, CallersAreHonest, Close
  <2>2. CallersAreHonest'
    BY <1>1, <1>2, <1>5 DEF CallersAreHonest, Close, IInv, HoldsItsKey
  <2>3. QED
    BY <2>1, <2>2 DEF AnswerInv
<1>6. CASE Remove(c) \/ Answer(c)
  <2>1. EntriesAreHonest'
    BY <1>2, <1>6 DEF EntriesAreHonest, Remove, Answer, Answered
  <2>2. CallersAreHonest'
    BY <1>1, <1>2, <1>6 DEF CallersAreHonest, EntriesAreHonest, Remove, Answer, Answered
  <2>3. QED
    BY <2>1, <2>2 DEF AnswerInv
<1>7. CASE Cancel(c)
  <2>1. EntriesAreHonest'
    BY <1>2, <1>7 DEF EntriesAreHonest, Cancel
  <2>2. CallersAreHonest'
    BY <1>1, <1>2, <1>7 DEF CallersAreHonest, Cancel
  <2>3. QED
    BY <2>1, <2>2 DEF AnswerInv
<1>8. QED
  BY <1>3, <1>4, <1>5, <1>6, <1>7

LEMMA AnswerNext == IInv /\ AnswerInv /\ [Next]_vars => AnswerInv'
<1> SUFFICES ASSUME IInv, AnswerInv, [Next]_vars PROVE AnswerInv'
  OBVIOUS
<1>1. EntriesAreHonest /\ CallersAreHonest /\ entry \in [Entries -> Entry]
      /\ caller \in [Callers -> Caller]
  BY DEF AnswerInv, IInv, Types
<1>2. CASE UNCHANGED vars
  BY <1>1, <1>2 DEF vars, AnswerInv, EntriesAreHonest, CallersAreHonest
<1>3. ASSUME NEW c \in Callers, NEW k \in Keys, Lookup(c, k) PROVE AnswerInv'
  <2>1. ASSUME NEW e \in Entries
        PROVE  /\ entry'[e].result = entry[e].result /\ entry'[e].closed = entry[e].closed
               /\ entry'[e].task = entry[e].task
    BY <1>1, <1>3 DEF Lookup, Entry
  <2>2. /\ caller'[c].pc = "claim" /\ caller'[c].answer = "none" /\ orphans' = orphans
        /\ \A d \in Callers \ {c} : caller'[d] = caller[d]
    BY <1>1, <1>3 DEF Lookup
  <2>3. EntriesAreHonest'
    BY <1>1, <2>1, <2>2 DEF EntriesAreHonest
  <2>4. CallersAreHonest'
    BY <1>1, <2>1, <2>2 DEF CallersAreHonest, IInv, HoldsItsKey, Outcomes
  <2>5. QED
    BY <2>3, <2>4 DEF AnswerInv
<1>4. ASSUME NEW e \in Entries, TaskEnds(e) PROVE AnswerInv'
  <2>1. PICK o \in Outcomes : entry' = [entry EXCEPT ![e].task = o]
    BY <1>4 DEF TaskEnds
  <2>2. /\ entry[e].task = "running" /\ UNCHANGED <<caller, orphans>>
        /\ \A f \in Entries : /\ entry'[f].result = entry[f].result
                              /\ entry'[f].closed = entry[f].closed
                              /\ entry[f].task \in Outcomes => entry'[f].task = entry[f].task
    BY <1>1, <1>4, <2>1 DEF TaskEnds, Entry, Outcomes
  <2>3. EntriesAreHonest'
    BY <1>1, <2>2 DEF EntriesAreHonest
  <2>4. CallersAreHonest'
    BY <1>1, <2>2 DEF CallersAreHonest, IInv, HoldsItsKey
  <2>5. QED
    BY <2>3, <2>4 DEF AnswerInv
<1>5. ASSUME NEW e \in Entries, Free(e) PROVE AnswerInv'
  <2>1. /\ entry'[e] = Unused /\ \A f \in Entries \ {e} : entry'[f] = entry[f]
        /\ orphans' = orphans \ {e}
        /\ \A d \in Callers : caller'[d] = IF caller[d].entry = e THEN Resting ELSE caller[d]
    BY <1>1, <1>5 DEF Free
  <2>2. EntriesAreHonest'
    BY <1>1, <2>1 DEF EntriesAreHonest, Unused, Outcomes
  <2>3. CallersAreHonest'
    BY <1>1, <2>1 DEF CallersAreHonest, IInv, HoldsItsKey, Resting, Outcomes
  <2>4. QED
    BY <2>2, <2>3 DEF AnswerInv
<1>6. QED
  BY <1>2, <1>3, <1>4, <1>5, CallerSteps DEF Next, Step

(* Whoever gets a result, creator or waiter, gets the outcome of the one   *)
(* task of its entry; "abandoned" is said only of a creator that was       *)
(* dropped, whatever the callers and however entries are reused.           *)
THEOREM SharedAnswers == Spec => []AnswersAreShared
<1>1. AnswerInv => AnswersAreShared
  BY DEF AnswerInv, CallersAreHonest, AnswersAreShared
<1>2. QED
  BY <1>1, InvInit, InvNext, AnswerInit, AnswerNext, PTL DEF Spec
==============================================================================
