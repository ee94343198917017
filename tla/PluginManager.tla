---------------------------- MODULE PluginManager ----------------------------
(***************************************************************************)
(* The data of a plugin manager and what the plugin crate computes on it:  *)
(* building a manager, putting instances back, reloading one plugin or all *)
(* of them, and closing the gaps between the slots.  A slot is addressed   *)
(* by its position in commands, messages and ticks, so everything that     *)
(* moves a slot has to move them too.  Positions start at 1 here.          *)
(***************************************************************************)
EXTENDS Naturals, SequencesExt, Ordering

CONSTANTS
    Names, Order,      \* the plugins, and their order in the file
    Settings, Off,     \* what the file says of a plugin; Off: not enabled
    CmdNames,          \* commands plugins may declare
    LostThreshold, ReloadThreshold,
    NoInstance

(* A setting stands for a priority and a wasm file: the commands in its     *)
(* metadata, whether it exports on_message, whether on_load registers a     *)
(* tick.                                                                    *)
ASSUME SettingsAssumption ==
    /\ Settings \subseteq [prio: Nat, cmds: SUBSET CmdNames, msg: BOOLEAN, tick: BOOLEAN]
    /\ Off \notin Settings
(* PluginManager::new refuses two plugins of one name.                      *)
ASSUME OrderAssumption == Order \in Seq(Names) /\ ToSet(Order) = Names /\ IsInjective(Order)
ASSUME ThresholdAssumption == LostThreshold \in Nat /\ ReloadThreshold \in Nat

File == [Names -> Settings \union {Off}]

(* at is the slot number the host services of the instance were given.      *)
Position == Nat \ {0}
Instance == [name: Names, at: Position]
ASSUME InstanceAssumption == NoInstance \notin Instance
Slot == [name: Names, set: Settings, inst: Instance \union {NoInstance},
         lost: Nat, fails: Nat]
TickEntry == [idx: Position, id: Nat, owner: Names]
Manager == [slots: Seq(Slot), cmds: [CmdNames -> Seq(Position)], msgs: SUBSET Position,
            ticks: SUBSET TickEntry, next: Nat]
Empty == [slots |-> <<>>, cmds |-> [c \in CmdNames |-> <<>>], msgs |-> {},
          ticks |-> {}, next |-> 0]

Filled(m)     == {i \in DOMAIN m.slots : m.slots[i].inst # NoInstance}
TicksOf(m, i) == {t \in m.ticks : t.idx = i}
Prio(m, i)    == m.slots[i].set.prio

------------------------------------------------------------------------------
(* s without what S contains (retain).                                      *)
Without(s, S) == Kept(s, {k \in DOMAIN s : s[k] \notin S})

(* sort_by_key(Reverse(priority)), which is stable.                         *)
Ahead(key) == {p \in (DOMAIN key) \X (DOMAIN key) :
                 key[p[1]] > key[p[2]] \/ (key[p[1]] = key[p[2]] /\ p[1] <= p[2])}
StableDescending(s, key) == Arranged(s, DOMAIN s, Ahead(key))
ByPriority(m, s) == StableDescending(s, [i \in DOMAIN s |-> Prio(m, s[i])])
Sorted(m) == [m EXCEPT !.cmds = [c \in CmdNames |-> ByPriority(m, m.cmds[c])]]

(* register_tick: a name registered before keeps its id.                    *)
Registered(m, inst) ==
    IF \E t \in TicksOf(m, inst.at) : t.owner = inst.name THEN m
    ELSE [m EXCEPT !.ticks = @ \union {[idx |-> inst.at, id |-> m.next, owner |-> inst.name]},
                   !.next = @ + 1]

(* No list and no set mentions the slots S any more.                        *)
Unlisted(m, S) ==
    [m EXCEPT !.cmds = [c \in CmdNames |-> Without(m.cmds[c], S)], !.msgs = @ \ S]
Listed(m, i) ==
    LET set == m.slots[i].set
    IN  [m EXCEPT !.cmds = [c \in CmdNames |->
                              IF c \in set.cmds THEN Append(m.cmds[c], i) ELSE m.cmds[c]],
                  !.msgs = IF set.msg THEN @ \union {i} ELSE @]

(* A new instance for slot i, after a successful on_load.                   *)
Installed(m, i, set) ==
    LET name   == m.slots[i].name
        inst   == [name |-> name, at |-> i]
        filled == [m EXCEPT !.slots[i] = [name |-> name, set |-> set, inst |-> inst,
                                          lost |-> 0, fails |-> 0],
                            !.ticks = @ \ TicksOf(m, i)]
    IN  Listed(Unlisted(IF set.tick THEN Registered(filled, inst) ELSE filled, {i}), i)

Added(m, name, set) ==
    LET i == Len(m.slots) + 1
    IN  Installed([m EXCEPT !.slots = Append(@, [name |-> name, set |-> set,
                       inst |-> NoInstance, lost |-> 0, fails |-> 0])], i, set)

(* One plugin of apply_adds; how says how far it gets: path or module do    *)
(* not load, no instance, on_load fails, or all is well.                    *)
AddStep(m, n, f, how) ==
    IF how[n] = "ok" THEN Added(m, n, f[n])
    ELSE IF how[n] = "load" THEN [m EXCEPT !.ticks = @ \ TicksOf(m, Len(m.slots) + 1)]
    ELSE m

(* The plugins of the list, one after the other.                            *)
AddedAll(m, list, f, how) ==
    LET after[k \in 0..Len(list)] ==
            IF k = 0 THEN m ELSE AddStep(after[k - 1], list[k], f, how)
    IN  after[Len(list)]

(* PluginManager::new: the enabled plugins by priority.                     *)
Enabled(f) == Without(Order, {n \in Names : f[n] = Off})
AllWell    == [n \in Names |-> "ok"]
NewManager(f) ==
    LET list == StableDescending(Enabled(f), [i \in DOMAIN Enabled(f) |-> f[Enabled(f)[i]].prio])
    IN  Sorted(AddedAll(Empty, list, f, AllWell))

------------------------------------------------------------------------------
Failed(m, i) == [m EXCEPT !.slots[i].fails = @ + 1]

(* reload_instance with the outcome of PluginInstance::new and on_load.     *)
InstanceReloaded(m, i, outcome) ==
    IF m.slots[i].fails >= ReloadThreshold THEN m
    ELSE IF outcome = "ok"    THEN Sorted(Installed(m, i, m.slots[i].set))
    ELSE IF outcome = "build" /\ m.slots[i].inst = NoInstance
         THEN Failed([m EXCEPT !.ticks = @ \ TicksOf(m, i)], i)
    ELSE Failed(m, i)

(* record_exec_error; the counter is compared with the threshold only and   *)
(* saturates there, but never at 0.                                         *)
ErrorCounted(m, i, outcome) ==
    IF i \notin DOMAIN m.slots THEN m
    ELSE LET lost    == IF m.slots[i].lost > 0 /\ m.slots[i].lost >= LostThreshold
                        THEN m.slots[i].lost ELSE m.slots[i].lost + 1
             counted == [m EXCEPT !.slots[i].lost = lost]
         IN  IF lost >= LostThreshold THEN InstanceReloaded(counted, i, outcome) ELSE counted

(* put_instance drops the instance when the slot is out of range.           *)
PutBack(m, i, inst) ==
    IF i \in DOMAIN m.slots THEN [m EXCEPT !.slots[i].inst = inst] ELSE m

------------------------------------------------------------------------------
(* diff_plugins: what the slots with an instance hold, by name.             *)
OldSlots(m, n) == {i \in Filled(m) : m.slots[i].name = n}
OldIdx(m, n)   == CHOOSE i \in OldSlots(m, n) : \A j \in OldSlots(m, n) : j <= i
ToRemove(m, f) == {OldIdx(m, n) : n \in {n \in Names : OldSlots(m, n) # {} /\ f[n] = Off}}
ToAdd(m, f)    == Without(Enabled(f), {n \in Names : OldSlots(m, n) # {}})
(* Slip: only the declared commands are compared.                           *)
ToReloadByCommands(m, f) ==
    Without(Enabled(f), {n \in Names : \/ OldSlots(m, n) = {} \/ f[n] = Off
                                       \/ m.slots[OldIdx(m, n)].set.cmds = f[n].cmds})

ToReload(m, f) ==
    Without(Enabled(f), {n \in Names : OldSlots(m, n) = {} \/ m.slots[OldIdx(m, n)].set = f[n]})

(* apply_removals                                                           *)
Removed(m, S) ==
    [Unlisted(m, S) EXCEPT
        !.slots = [i \in DOMAIN m.slots |->
                     IF i \in S THEN [m.slots[i] EXCEPT !.inst = NoInstance] ELSE m.slots[i]],
        !.ticks = {t \in @ : t.idx \notin S}]

(* One plugin of apply_reloads, which is in slot i.                         *)
ReloadStep(m, n, i, f, how) ==
    IF m.slots[i].fails >= ReloadThreshold \/ how[n] = "path" THEN m
    ELSE IF how[n] = "ok" THEN Installed(m, i, f[n])
    ELSE Failed(m, i)

ReloadedInTurn(m, list, at, f, how) ==
    LET after[k \in 0..Len(list)] ==
            IF k = 0 THEN m ELSE ReloadStep(after[k - 1], list[k], at[list[k]], f, how)
    IN  after[Len(list)]

(* compact: slots without an instance disappear.  The entries of the tick   *)
(* registry that belong to them stay as they are.                           *)
NewIdx(m, i) == Cardinality({j \in Filled(m) : j <= i})

(* Slip: the instances are not told their new number.                       *)
CompactedSlotsUntold(m) == Kept(m.slots, Filled(m))

CompactedSlots(m) ==
    LET kept == Kept(m.slots, Filled(m))
    IN  [i \in DOMAIN kept |-> [kept[i] EXCEPT !.inst.at = i]]

Moved(m, s) == [k \in DOMAIN s |-> NewIdx(m, s[k])]

Compacted(m) ==
    IF Filled(m) = DOMAIN m.slots THEN m
    ELSE Sorted([m EXCEPT
           !.slots = CompactedSlots(m),
           !.cmds  = [c \in CmdNames |->
                        Moved(m, Without(m.cmds[c], DOMAIN m.slots \ Filled(m)))],
           !.msgs  = {NewIdx(m, i) : i \in @ \intersect Filled(m)},
           !.ticks = {IF t.idx \in Filled(m) THEN [t EXCEPT !.idx = NewIdx(m, t.idx)] ELSE t :
                        t \in @}])

Changed(m, f, how) ==
    LET at    == [n \in {n \in Names : OldSlots(m, n) # {}} |-> OldIdx(m, n)]
        grown == AddedAll(Removed(m, ToRemove(m, f)), ToAdd(m, f), f, how)
    IN  ReloadedInTurn(grown, ToReload(m, f), at, f, how)

ReloadedAll(m, f, how) == Compacted(Sorted(Changed(m, f, how)))

(* Ticks whose slot had lost its instance when compact removed it.          *)
Orphaned(m) == {t.id : t \in {t \in m.ticks : t.idx \notin Filled(m)}}
==============================================================================
