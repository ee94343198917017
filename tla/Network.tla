------------------------------- MODULE Network -------------------------------
(***************************************************************************)
(* The way of a message in and of an answer out, part by part: the end of  *)
(* the program, the connection with its calls, the dispatch of commands,   *)
(* the calls to the osu! API, and the codes sent over IRC.  The parts      *)
(* share no state, so a behaviour runs one of them, chosen at its start.   *)
(* Calls share nothing but the tokens, which other frames take as well:    *)
(* one call stands for all.                                                *)
(***************************************************************************)
EXTENDS Naturals, Sequences, FiniteSets, SequencesExt

CONSTANTS Tasks, Loop, Sched, Timed
VARIABLES stop, schedStop, signal, task, main
S == INSTANCE Shutdown

CONSTANTS Calls, Timeouts, Floor, Margin, MaxTokens, MaxDelay, MaxConns, MaxFailures
VARIABLES loop, conn, open, delay, failures, tokens, timeout, pending, call, answer
C == INSTANCE Connection

CONSTANTS Handlers, Users, Limit, Window, Idle, SweepEvery
VARIABLES entry, sweepAge, handler, ran
D == INSTANCE CommandDispatch

CONSTANTS Requests, Burst, MaxRetries, MaxRefreshes, MaxUpdates, Nobody
VARIABLES bucket, permit, waiters, client, cached, lock, req
A == INSTANCE ApiClient

CONSTANTS Codes, Capacity, MaxWire, MaxDials
VARIABLES pc, redial, quiet, link, wire, head, hand, queue, socket, fate, dials
I == INSTANCE IrcClient

ASSUME TaskAssumption ==
    Loop \notin Tasks /\ Sched \in Timed /\ Timed \subseteq Tasks
ASSUME TimeAssumption ==
    /\ Timeouts \subseteq Nat \ {0} /\ IsFiniteSet(Timeouts)
    /\ {Margin, MaxTokens, MaxDelay, Window} \subseteq Nat \ {0}
    /\ {Floor, Limit, Idle, SweepEvery} \subseteq Nat
    /\ Window <= Idle /\ Idle <= SweepEvery
ASSUME CallersAssumption ==
    /\ IsFiniteSet(Handlers)
    /\ Nobody \notin Requests /\ Nobody \notin Nat

VARIABLE part
shutdownVars   == <<stop, schedStop, signal, task, main>>
connectionVars == <<loop, conn, open, delay, failures, tokens, timeout, pending, call, answer>>
dispatchVars   == <<entry, sweepAge, handler, ran>>
apiVars        == <<bucket, permit, waiters, client, cached, lock, req>>
ircVars        == <<pc, redial, quiet, link, wire, head, hand, queue, socket, fate, dials>>
vars == <<shutdownVars, connectionVars, dispatchVars, apiVars, ircVars, part>>

Init ==
    /\ S!Init /\ C!Init /\ D!Init /\ A!Init /\ I!Init
    /\ part \in {"shutdown", "connection", "dispatch", "api", "irc"}

Next ==
    \/ part = "shutdown" /\ S!Next /\ UNCHANGED <<connectionVars, dispatchVars, apiVars, ircVars, part>>
    \/ part = "connection" /\ C!Next /\ UNCHANGED <<shutdownVars, dispatchVars, apiVars, ircVars, part>>
    \/ part = "dispatch" /\ D!Next /\ UNCHANGED <<shutdownVars, connectionVars, apiVars, ircVars, part>>
    \/ part = "api" /\ A!Next /\ UNCHANGED <<shutdownVars, connectionVars, dispatchVars, ircVars, part>>
    \/ part = "irc" /\ I!Next /\ UNCHANGED <<shutdownVars, connectionVars, dispatchVars, apiVars, part>>

(* The fairness of S, C, A and I, each in its own part.                     *)
InS(B) == part = "shutdown" /\ S!Next /\ B
InC(B) == part = "connection" /\ B
InA(B) == part = "api" /\ B
InI(B) == part = "irc" /\ B

Fairness ==
    /\ WF_shutdownVars(InS(S!Notify))
    /\ \A t \in S!All : WF_shutdownVars(InS(S!Step(t)))
    /\ \A t \in Timed : WF_shutdownVars(InS(S!Wake(t))) /\ WF_shutdownVars(InS(S!Work(t)))
    /\ WF_shutdownVars(InS(S!StopScheduler \/ S!NotifyAgain \/ S!Join))
    /\ WF_connectionVars(InC(C!Tick)) /\ WF_connectionVars(InC(C!Cleanup))
    /\ \A c \in Calls : WF_connectionVars(InC(C!CallStep(c)))
    /\ \A r \in Requests : WF_apiVars(InA(A!Step(r)))
    /\ WF_ircVars(InI(I!ClientStep)) /\ WF_ircVars(InI(I!Bridge))

Spec == Init /\ [][Next]_vars /\ Fairness

(* Every part answers whoever waits for it: a call to OneBot, the signal    *)
(* that ends the program, a call to the osu! API, a code sent over IRC.     *)
EverybodyIsAnswered ==
    /\ C!NoCallHangs /\ S!ShutdownReachesAll /\ A!EveryCallReturns
    /\ I!CodesAreSettled

SweepSparesCallers  == C!SweepSparesCallers
DelayCountsFailures == C!DelayCountsFailures
BurstIsBounded      == D!BurstIsBounded
TokensAreShared     == A!TokensAreShared
==============================================================================
