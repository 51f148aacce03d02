---------------------------- MODULE WorkflowRun ----------------------------
(***************************************************************************)
(* One dynamic-workflow run: the sandboxed script, the engine with its ask *)
(* scheduler, the driver that runs the subagents' turns, the journal, and  *)
(* the run's lifetimes (stop, crash, orphan reconciliation, resume).       *)
(*                                                                         *)
(* The script is a set of strands (the callbacks of a Promise.all), each a *)
(* fixed sequence of asks.  The engine has no identity for a strand: it    *)
(* names an ask by <<site, ordinal>> and an actor by <<creation site,      *)
(* ordinal>>, both minted in the order the calls arrive, and on a resume   *)
(* the script runs again from the top against the journal rows those names *)
(* select.                                                                 *)
(*                                                                         *)
(* Abstractions: the text of an ask stands for its instructions and their  *)
(* hash; a result is the lifetime that produced it; a turn is one record   *)
(* in its runtime's queue (turns of one runtime are serial, runtime turns  *)
(* go through RuntimeCommandQueue).  Escalations, world reads, reports,    *)
(* artifacts, phases, usage, the import cache of an amended run and the    *)
(* message boundary of an ask are left out.                                *)
(***************************************************************************)
EXTENDS Integers, Sequences, FiniteSets, Functions

CONSTANTS
    None,            \* no instance / no actor
    Order,           \* the strands, in the order the script starts them
    Script,          \* strand |-> sequence of [site, agent, text]
    ActorSite,       \* agent handle |-> the site that creates it
    Typed,           \* the ask sites with a result type (submit_result)
    Catches,         \* strands that catch a failed ask and go on
    Awaited,         \* strands the script awaits before it returns
    Caps,            \* values of caps.maxConcurrency
    RepairAttempts,  \* REPAIR_ATTEMPTS
    NudgeAttempts,   \* NUDGE_ATTEMPTS
    StopReasons,     \* reasons an outside stop gives
    MaxLives,        \* bound: engines started for this run
    MaxCrashes,      \* bound: process deaths
    MaxFaults        \* bound: failed sessions and failed turns

Strands == Range(Order)
Agents == DOMAIN ActorSite
AskSites == UNION {{Script[s][n].site : n \in 1..Len(Script[s])} : s \in Strands}
Sites == AskSites \cup Range(ActorSite)

ASSUME ScriptAssumption ==
    /\ Order \in Seq(Strands) /\ Len(Order) = Cardinality(Strands)
    /\ DOMAIN Script = Strands
    /\ \A s \in Strands : Script[s] \in Seq(Range(Script[s]))
    /\ IsFiniteSet(Agents)
    /\ \A s \in Strands : \A n \in 1..Len(Script[s]) : Script[s][n].agent \in Agents
    /\ AskSites \cap Range(ActorSite) = {}
    /\ Awaited \subseteq Strands
ASSUME NoneAssumption == None \notin Sites \X Nat /\ None \notin {"superseded", "InputHashMismatch"}
ASSUME CapAssumption ==
    /\ Caps \subseteq Nat \ {0}
    /\ RepairAttempts \in Nat /\ NudgeAttempts \in Nat
    /\ MaxLives \in Nat \ {0} /\ MaxCrashes \in Nat /\ MaxFaults \in Nat
    /\ StopReasons \subseteq {"user", "model", "interrupted", "superseded"}

VARIABLES
    rows,      \* dwf_node (durable): instance |-> [actor, seq, text, status, answer]
    runRow,    \* dwf_run (durable): [status, code]
    engine,    \* "running", "settled", or "none" after the process died
    eng,       \* the engine's and its scheduler's memory
    mail,      \* answers on their way to the script, oldest first
    pc,        \* strand |-> number of asks it has made
    sessions,  \* <<lifetime, actor>> |-> the driver's SessionState
    creating,  \* <<lifetime, actor>> of createActorSession calls in flight
    cap,       \* caps.maxConcurrency of this run
    life,      \* lifetimes of this run so far
    crashes,   \* process deaths so far
    faults,    \* injected failures so far
    heard      \* history: strand |-> step |-> the answer it observed last

vars == <<rows, runRow, engine, eng, mail, pc, sessions, creating,
          cap, life, crashes, faults, heard>>

bounds == <<cap, life, crashes, faults>>

-----------------------------------------------------------------------------
(* Finite maps and the initial memory of an engine.                        *)

EmptyMap == [x \in {} |-> None]
Put(f, k, v) == [x \in DOMAIN f \cup {k} |-> IF x = k THEN v ELSE f[x]]
Drop(f, S) == [x \in DOMAIN f \ S |-> f[x]]

FreshEngine ==
    [ordinals |-> [t \in Sites |-> 0],
     handle   |-> [a \in Agents |-> None],
     order    |-> <<>>,
     actor    |-> EmptyMap,
     live     |-> EmptyMap,
     active   |-> 0]

(* The script starts its strands in order. *)
Started == [n \in 1..Len(Order) |-> [strand |-> Order[n], status |-> "start", answer |-> 0]]

Running == engine = "running"
Final(i) == i \in DOMAIN rows /\ rows[i].status # "running"

-----------------------------------------------------------------------------
(* Scheduler: registration of actors and admission of asks.                *)

(* registerActor: the actor's recorded asks are counted in the journal. *)
FreshActor(ref) ==
    [recorded |-> Cardinality({i \in DOMAIN rows : rows[i].actor = ref}),
     next |-> 0, held |-> EmptyMap, fresh |-> <<>>, queue |-> <<>>,
     current |-> None, session |-> "none"]

(* createActor, run by the first use of a handle. *)
CreateActor(e, agent) ==
    LET site == ActorSite[agent]
        ref  == <<site, e.ordinals[site] + 1>>
    IN  IF e.handle[agent] # None THEN e
        ELSE [e EXCEPT !.ordinals[site] = @ + 1,
                       !.handle[agent] = ref,
                       !.order = Append(@, ref),
                       !.actor = Put(@, ref, FreshActor(ref))]

(* drainAdmission, from the actor's next sequence number on: a position is  *)
(* filled by the recorded ask that waits for it, or, past the recorded      *)
(* ones, by the oldest fresh ask.  It stops at the first empty position.    *)
FreshBefore(a, p) == Cardinality({q \in a.next..(p - 1) : q \notin DOMAIN a.held})
(* Mutant: a fresh ask does not wait for the recorded ones. *)
BlockedByNothingRecorded(a, p) == p \notin DOMAIN a.held /\ FreshBefore(a, p) >= Len(a.fresh)
Blocked(a, p) ==
    /\ p \notin DOMAIN a.held
    /\ (p < a.recorded \/ FreshBefore(a, p) >= Len(a.fresh))
DrainEnd(a) ==
    LET last == a.next + Cardinality(DOMAIN a.held) + Len(a.fresh)
    IN  CHOOSE p \in a.next..last :
            Blocked(a, p) /\ \A q \in a.next..(p - 1) : ~Blocked(a, q)
CallAt(a, p) == IF p \in DOMAIN a.held THEN a.held[p] ELSE a.fresh[FreshBefore(a, p) + 1]
Released(a) ==
    [n \in 1..(DrainEnd(a) - a.next) |->
        [call |-> CallAt(a, a.next + n - 1), seq |-> a.next + n - 1]]

(* Mutant: a recorded failure is asked again. *)
CachedIfCompleted(x) == x.call.inst \in DOMAIN rows /\ rows[x.call.inst].status = "completed"
Cached(x) == Final(x.call.inst)

(* The elements of a sequence at some of its positions, in their order. *)
Nth(S, n) == CHOOSE i \in S : Cardinality({j \in S : j <= i}) = n
At(s, S) == [n \in 1..Cardinality(S) |-> s[Nth(S, n)]]

(* The released asks the journal does not answer. *)
Begun(out) == {n \in DOMAIN out : ~Cached(out[n])}
Opened(out) == {out[n].call.inst : n \in Begun(out)}
Entry(out, i) == out[CHOOSE n \in Begun(out) : out[n].call.inst = i]

(* Mutant: a busy actor is pumped again. *)
IdleOrBusy(e, r) == e.actor[r].queue # <<>>
Idle(e, r) == e.actor[r].current = None /\ e.actor[r].queue # <<>>

(* pumpActor over the given actors while slots last: dispatch takes the slot *)
(* and asks for the session; the rest of dispatch is the action Dispatch.    *)
Taken(e, refs) ==
    LET idle == {n \in DOMAIN refs : Idle(e, refs[n])}
    IN  {refs[n] : n \in {m \in idle : Cardinality({l \in idle : l <= m}) <= cap - e.active}}
TakeTurn(a) ==
    [a EXCEPT !.current = Head(a.queue), !.queue = Tail(@),
              !.session = IF @ = "none" THEN "pending" ELSE @]
Pump(e, refs) ==
    LET taken == Taken(e, refs)
    IN  [e EXCEPT !.active = @ + Cardinality(taken),
                  !.actor = [r \in DOMAIN @ |-> IF r \in taken THEN TakeTurn(@[r]) ELSE @[r]]]

(* The creations a pump has just asked the driver for. *)
Asked(e) == creating \cup {<<life, r>> : r \in {q \in DOMAIN e.actor : e.actor[q].session = "pending"}}

NewNode(strand, ref) ==
    [strand |-> strand, actor |-> ref, repairs |-> RepairAttempts,
     nudges |-> NudgeAttempts, dispatched |-> FALSE]

(* What a drain leaves of the actor, and of the engine. *)
Drained(a) ==
    LET out   == Released(a)
        begun == At(out, Begun(out))
        end   == DrainEnd(a)
    IN  [a EXCEPT !.next = end,
                  !.held = Drop(@, a.next..(end - 1)),
                  !.fresh = SubSeq(@, FreshBefore(a, end) + 1, Len(@)),
                  !.queue = @ \o [n \in DOMAIN begun |-> begun[n].call.inst]]
Entered(e, ref) ==
    LET out    == Released(e.actor[ref])
        opened == Opened(out)
    IN  [e EXCEPT !.actor[ref] = Drained(@),
                  !.live = [i \in DOMAIN @ \cup opened |->
                      IF i \in opened THEN NewNode(Entry(out, i).call.strand, ref) ELSE @[i]]]

(* admitLive and releaseCachedAsk over everything one drain releases; the   *)
(* actor is pumped first, then the actors in others.                        *)
Admit(e, ref, rest, others) ==
    LET out    == Released(e.actor[ref])
        opened == Opened(out)
        hits   == At(out, DOMAIN out \ Begun(out))
    IN  /\ eng' = Pump(Pump(Entered(e, ref), <<ref>>), others)
        /\ creating' = Asked(eng')
        /\ rows' = [i \in DOMAIN rows \cup opened |->
                IF i \in opened
                THEN [actor |-> ref, seq |-> Entry(out, i).seq, text |-> Entry(out, i).call.text,
                      status |-> "running", answer |-> 0]
                ELSE rows[i]]
        /\ mail' = rest \o [n \in DOMAIN hits |->
                [strand |-> hits[n].call.strand, status |-> rows[hits[n].call.inst].status,
                 answer |-> rows[hits[n].call.inst].answer]]

-----------------------------------------------------------------------------
(* Driver: a session's state and what the engine does to it.               *)

FreshSession ==
    [current |-> None, accepted |-> FALSE, cancelled |-> FALSE, redrive |-> None,
     turns |-> <<>>, reporting |-> {}, disposed |-> FALSE, closed |-> FALSE]

RunTurn(ss, i) == [ss EXCEPT !.turns = Append(@, [inst |-> i, mode |-> "run"])]

StartAsk(ss, i) ==
    RunTurn([ss EXCEPT !.current = i, !.accepted = FALSE, !.cancelled = FALSE,
                       !.redrive = None], i)

(* Mutant: cancelAsk marks the session but does not abort its turn. *)
CancelFlagOnly(ss) == [ss EXCEPT !.cancelled = TRUE, !.redrive = None]

(* cancelAsk aborts the turns of the session's current ask. *)
CancelAsk(ss) ==
    [ss EXCEPT !.cancelled = TRUE, !.redrive = None,
               !.turns = [n \in DOMAIN @ |->
                   IF @[n].inst = ss.current THEN [@[n] EXCEPT !.mode = "aborted"] ELSE @[n]]]

(* A turn of the session is over: it leaves the queue, and a disposed       *)
(* session closes its runtime with the last one.                            *)
TurnLands(ss) ==
    [ss EXCEPT !.turns = Tail(@), !.closed = @ \/ (ss.disposed /\ Len(ss.turns) = 1)]

(* dispose: every session in the table closes now or when its turn lands. *)
Dispose(ss) ==
    [ss EXCEPT !.redrive = None, !.disposed = TRUE, !.closed = ss.turns = <<>>]

-----------------------------------------------------------------------------
(* Settlement of an ask and of the run.                                    *)

(* Mutant: only the actor that finished is pumped. *)
FinishPumpingOwn(e, i) ==
    LET ref == e.live[i].actor
        own == e.actor[ref].current = i
        e1  == [e EXCEPT !.live = Drop(@, {i}),
                         !.active = IF own THEN @ - 1 ELSE @,
                         !.actor[ref].current = IF own THEN None ELSE @]
    IN  Pump(e1, <<ref>>)

(* finishLiveNode: the node leaves, its slot is freed, everything pumps. *)
FinishNode(e, i) ==
    LET ref == e.live[i].actor
        own == e.actor[ref].current = i
        e1  == [e EXCEPT !.live = Drop(@, {i}),
                         !.active = IF own THEN @ - 1 ELSE @,
                         !.actor[ref].current = IF own THEN None ELSE @]
    IN  Pump(e1, e1.order)

(* settleOk / settleFailed: the row, the slot, the script's answer. *)
SettleNode(i, status) ==
    /\ rows' = [rows EXCEPT ![i].status = status, ![i].answer = life]
    /\ eng' = FinishNode(eng, i)
    /\ creating' = Asked(eng')
    /\ mail' = Append(mail, [strand |-> eng.live[i].strand, status |-> status, answer |-> life])

(* settleCompleted / settleStopped / settleFailed of the run: in-flight asks *)
(* are aborted, the row is written, the driver is disposed and the sandbox   *)
(* is killed.  ss is the session table the event itself leaves.              *)
SettleRun(ss, status, code) ==
    /\ engine' = "settled"
    /\ runRow' = [status |-> status, code |-> code]
    /\ eng' = [eng EXCEPT !.live = EmptyMap, !.active = 0]
    /\ mail' = <<>>
    /\ sessions' = [k \in DOMAIN ss |->
            IF k[1] # life THEN ss[k]
            ELSE IF ss[k].current \in DOMAIN eng.live
                 THEN Dispose(CancelAsk(ss[k])) ELSE Dispose(ss[k])]
    /\ UNCHANGED <<rows, creating>>

-----------------------------------------------------------------------------
(* The script: the oldest answer reaches its strand, which goes on at once. *)

Observed(m) ==
    IF m.status = "start" THEN heard
    ELSE [heard EXCEPT ![m.strand][pc[m.strand]] = [status |-> m.status, answer |-> m.answer]]

Throws(m) == m.status = "failed" /\ m.strand \notin Catches
Ended(s) == pc[s] > Len(Script[s])

Oldest(m) == Running /\ mail # <<>> /\ m = Head(mail)

(* An awaited strand throws: complete {ok: false}, the run is errored. *)
ScriptThrows(m) ==
    /\ Oldest(m) /\ Throws(m) /\ m.strand \in Awaited
    /\ heard' = Observed(m)
    /\ SettleRun(sessions, "errored", "DriverError")
    /\ UNCHANGED <<pc, bounds>>

(* A strand returns (or, not awaited, throws unheard); the last awaited one *)
(* lets the script return its artifact.                                     *)
StrandEnds(m) ==
    LET s == m.strand IN
    /\ Oldest(m)
    /\ IF Throws(m) THEN s \notin Awaited ELSE pc[s] = Len(Script[s])
    /\ heard' = Observed(m)
    /\ pc' = [pc EXCEPT ![s] = Len(Script[s]) + 1]
    /\ IF s \in Awaited /\ \A t \in Awaited \ {s} : Ended(t)
       THEN SettleRun(sessions, "completed", None)
       ELSE mail' = Tail(mail) /\ UNCHANGED <<rows, runRow, engine, eng, sessions, creating>>
    /\ UNCHANGED <<bounds>>

(* ask: the next step of the strand.  The actor is created on first use, the *)
(* instance takes the next ordinal of its site, the journal decides the rest.*)
AskOf(m) == Script[m.strand][pc[m.strand] + 1]
CreatedFor(m) == CreateActor(eng, AskOf(m).agent)
ActorOf(m) == CreatedFor(m).handle[AskOf(m).agent]
InstanceOf(m) == <<AskOf(m).site, eng.ordinals[AskOf(m).site] + 1>>
Minted(m) == [CreatedFor(m) EXCEPT !.ordinals[AskOf(m).site] = @ + 1]
Call(m) == [inst |-> InstanceOf(m), strand |-> m.strand, text |-> AskOf(m).text]

StrandAsks(m) ==
    /\ Oldest(m) /\ ~Throws(m) /\ pc[m.strand] < Len(Script[m.strand])
    /\ heard' = Observed(m)
    /\ pc' = [pc EXCEPT ![m.strand] = @ + 1]
    /\ UNCHANGED <<bounds>>

(* No row: the ask waits behind the recorded ones for a sequence number. *)
AskFresh(m) ==
    /\ StrandAsks(m)
    /\ InstanceOf(m) \notin DOMAIN rows
    /\ LET e == [Minted(m) EXCEPT !.actor[ActorOf(m)].fresh = Append(@, Call(m))]
       IN  Admit(e, ActorOf(m), Tail(mail), e.order)
    /\ UNCHANGED <<runRow, engine, sessions>>

(* A row with the same input: the ask waits for its recorded position. *)
AskRecorded(m) ==
    LET i == InstanceOf(m) IN
    /\ StrandAsks(m)
    /\ i \in DOMAIN rows /\ rows[i].text = AskOf(m).text
    /\ Admit([Minted(m) EXCEPT !.actor[ActorOf(m)].held = Put(@, rows[i].seq, Call(m))],
             ActorOf(m), Tail(mail), <<>>)
    /\ UNCHANGED <<runRow, engine, sessions>>

(* A row with another input: the whole run fails. *)
AskMismatched(m) ==
    LET i == InstanceOf(m) IN
    /\ StrandAsks(m)
    /\ i \in DOMAIN rows /\ rows[i].text # AskOf(m).text
    /\ SettleRun(sessions, "errored", "InputHashMismatch")

Sandbox ==
    \E m \in Range(mail) :
        ScriptThrows(m) \/ StrandEnds(m) \/ AskFresh(m) \/ AskRecorded(m) \/ AskMismatched(m)

-----------------------------------------------------------------------------
(* Sessions and dispatch.                                                  *)

(* createActorSession of lifetime k[1] returns: whether or not its run is    *)
(* still running, the session enters the driver's table.                     *)
SessionReady(k) ==
    /\ k \in creating
    /\ creating' = creating \ {k}
    /\ sessions' = Put(sessions, k, FreshSession)
    /\ eng' = IF k[1] = life THEN [eng EXCEPT !.actor[k[2]].session = "ready"] ELSE eng
    /\ UNCHANGED <<rows, runRow, engine, mail, pc, bounds, heard>>

(* It fails; the rejected promise stays cached in the actor. *)
SessionFails(k) ==
    /\ k \in creating /\ faults < MaxFaults
    /\ faults' = faults + 1
    /\ creating' = creating \ {k}
    /\ eng' = IF k[1] = life THEN [eng EXCEPT !.actor[k[2]].session = "failed"] ELSE eng
    /\ UNCHANGED <<rows, runRow, engine, mail, pc, sessions, cap, life, crashes, heard>>

(* Mutant: dispatch goes on without looking at the run again. *)
DispatchUnchecked(r) ==
    LET i == eng.actor[r].current IN
    /\ i # None /\ eng.actor[r].session = "ready" /\ <<life, r>> \in DOMAIN sessions
    /\ sessions[<<life, r>>].current # i
    /\ eng' = IF i \in DOMAIN eng.live THEN [eng EXCEPT !.live[i].dispatched = TRUE] ELSE eng
    /\ sessions' = [sessions EXCEPT ![<<life, r>>] = StartAsk(@, i)]
    /\ UNCHANGED <<rows, mail, creating, runRow, engine, pc, bounds, heard>>

(* The rest of dispatch, once the session promise settled. *)
Dispatch(r) ==
    LET i == eng.actor[r].current IN
    /\ Running /\ r \in DOMAIN eng.actor
    /\ i \in DOMAIN eng.live /\ ~eng.live[i].dispatched
    /\ \/ /\ eng.actor[r].session = "ready"
          /\ eng' = [eng EXCEPT !.live[i].dispatched = TRUE]
          /\ sessions' = [sessions EXCEPT ![<<life, r>>] = StartAsk(@, i)]
          /\ UNCHANGED <<rows, mail, creating>>
       \/ /\ eng.actor[r].session = "failed"
          /\ SettleNode(i, "failed")
          /\ UNCHANGED sessions
    /\ UNCHANGED <<runRow, engine, pc, bounds, heard>>

-----------------------------------------------------------------------------
(* Turns.  k is a session, its head turn is the one its runtime executes.    *)

Turn(k) == Head(sessions[k].turns)
InTurn(k) == sessions[k].turns # <<>>
Reaches(k, i) == Running /\ k[1] = life /\ i \in DOMAIN eng.live

(* submit_result in the turn of a typed ask; the port answers for the        *)
(* session's current ask.                                                    *)
Submits(k) ==
    /\ k \in DOMAIN sessions /\ InTurn(k) /\ Turn(k).mode = "run"
    /\ sessions[k].current[1] \in Typed
    /\ Reaches(k, sessions[k].current)
    /\ UNCHANGED <<runRow, engine, pc, bounds, heard>>

SubmitAccepted(k) ==
    /\ Submits(k)
    /\ sessions' = [sessions EXCEPT ![k].accepted = TRUE, ![k].turns[1].mode = "stopping"]
    /\ SettleNode(sessions[k].current, "completed")

SubmitRejected(k) ==
    LET i == sessions[k].current IN
    /\ Submits(k)
    /\ IF eng.live[i].repairs > 0
       THEN /\ eng' = [eng EXCEPT !.live[i].repairs = @ - 1]
            /\ UNCHANGED <<rows, mail, sessions, creating>>
       ELSE /\ sessions' = [sessions EXCEPT ![k] = CancelAsk(@)]
            /\ SettleNode(i, "failed")

(* The turn resolves; the transcript is counted before the outcome is        *)
(* reported.                                                                *)
TurnResolves(k) ==
    LET landed == TurnLands(sessions[k]) IN
    /\ k \in DOMAIN sessions /\ InTurn(k)
    /\ sessions' = [sessions EXCEPT ![k] = [landed EXCEPT !.reporting = @ \cup {Turn(k).inst}]]
    /\ UNCHANGED <<rows, runRow, engine, eng, mail, pc, creating, bounds, heard>>

(* reportTurnOutcome: an ask still live is settled with the final text, or,   *)
(* typed and never submitted, nudged or failed.                               *)
Report(k, i) ==
    LET told == [sessions[k] EXCEPT !.reporting = @ \ {i}] IN
    /\ k \in DOMAIN sessions /\ i \in sessions[k].reporting
    /\ IF sessions[k].accepted \/ ~Reaches(k, i)
       THEN sessions' = [sessions EXCEPT ![k] = told] /\ UNCHANGED <<rows, eng, mail, creating>>
       ELSE IF i[1] \notin Typed
       THEN sessions' = [sessions EXCEPT ![k] = told] /\ SettleNode(i, "completed")
       ELSE IF eng.live[i].nudges > 0
       THEN /\ sessions' = [sessions EXCEPT ![k] = RunTurn(told, i)]
            /\ eng' = [eng EXCEPT !.live[i].nudges = @ - 1]
            /\ UNCHANGED <<rows, mail, creating>>
       ELSE sessions' = [sessions EXCEPT ![k] = CancelAsk(told)] /\ SettleNode(i, "failed")
    /\ UNCHANGED <<runRow, engine, pc, bounds, heard>>

(* The turn rejects.  Cancelled asks are not reported. *)
TurnCancelled(k) ==
    /\ k \in DOMAIN sessions /\ InTurn(k) /\ Turn(k).mode = "aborted"
    /\ sessions' = [sessions EXCEPT ![k] = TurnLands(@)]
    /\ UNCHANGED <<rows, runRow, engine, eng, mail, pc, creating, bounds, heard>>

TurnFails(k) ==
    /\ k \in DOMAIN sessions /\ InTurn(k) /\ Turn(k).mode # "aborted"
    /\ faults < MaxFaults /\ faults' = faults + 1
    /\ UNCHANGED <<pc, cap, life, crashes, heard>>

(* A context overflow or a driver-side error fails the ask. *)
TurnErrs(k) ==
    /\ TurnFails(k)
    /\ sessions' = [sessions EXCEPT ![k] = TurnLands(@)]
    /\ IF ~sessions[k].cancelled /\ Reaches(k, Turn(k).inst)
       THEN SettleNode(Turn(k).inst, "failed")
       ELSE UNCHANGED <<rows, eng, mail, creating>>
    /\ UNCHANGED <<runRow, engine>>

(* A deterministic model-side error stops the run as stopped(provider). *)
TurnStopsRun(k) ==
    /\ TurnFails(k) /\ Turn(k).mode = "run" /\ ~sessions[k].cancelled /\ k[1] = life /\ Running
    /\ SettleRun([sessions EXCEPT ![k] = TurnLands(@)], "stopped", "provider")

(* A transient one is redriven after a backoff. *)
TurnIsTransient(k) ==
    /\ TurnFails(k) /\ Turn(k).mode = "run" /\ ~sessions[k].cancelled
    /\ sessions' = [sessions EXCEPT ![k] = [TurnLands(@) EXCEPT !.redrive = Turn(k).inst]]
    /\ UNCHANGED <<rows, runRow, engine, eng, mail, creating>>

RedriveFires(k) ==
    LET ss == [sessions[k] EXCEPT !.redrive = None] IN
    /\ k \in DOMAIN sessions /\ sessions[k].redrive # None
    /\ sessions' = [sessions EXCEPT ![k] =
            IF \/ ss.disposed \/ ss.cancelled \/ ss.accepted
               \/ ss.current # sessions[k].redrive
            THEN ss ELSE RunTurn(ss, sessions[k].redrive)]
    /\ UNCHANGED <<rows, runRow, engine, eng, mail, pc, creating, bounds, heard>>

-----------------------------------------------------------------------------
(* The lifetimes of the run.                                               *)

(* TaskStop, the user's stop, closing the app, amending the run away, or a   *)
(* broken sandbox.                                                           *)
Stop(reason) ==
    /\ Running
    /\ SettleRun(sessions, "stopped", reason)
    /\ UNCHANGED <<pc, bounds, heard>>

(* The process dies: what is not in the journal is gone. *)
Crash ==
    /\ engine # "none" /\ crashes < MaxCrashes
    /\ crashes' = crashes + 1
    /\ engine' = "none" /\ eng' = FreshEngine /\ mail' = <<>>
    /\ pc' = [s \in Strands |-> 0]
    /\ sessions' = EmptyMap /\ creating' = {}
    /\ UNCHANGED <<rows, runRow, cap, life, faults, heard>>

(* Mutant: the reason is written where the status belongs. *)
ReconcileAsStatus ==
    /\ engine = "none" /\ runRow.status = "running"
    /\ runRow' = [status |-> "interrupted", code |-> None]
    /\ UNCHANGED <<rows, engine, eng, mail, pc, sessions, creating, bounds, heard>>

(* reconcileOrphanRuns of the next process, before it offers the run. *)
Reconcile ==
    /\ engine = "none" /\ runRow.status = "running"
    /\ runRow' = [status |-> "stopped", code |-> "interrupted"]
    /\ UNCHANGED <<rows, engine, eng, mail, pc, sessions, creating, bounds, heard>>

(* Mutant: an amended run can be resumed next to its successor. *)
ResumableIfStopped == runRow.status = "stopped"

Resumable == runRow.status = "stopped" /\ runRow.code # "superseded"

(* resume: a new engine over the same journal, a new sandbox from the top.    *)
(* Closed runtimes are forgotten; what the old driver still runs goes on.     *)
Resume ==
    /\ ~Running /\ Resumable /\ life < MaxLives
    /\ life' = life + 1
    /\ engine' = "running" /\ eng' = FreshEngine
    /\ runRow' = [status |-> "running", code |-> None]
    /\ mail' = Started /\ pc' = [s \in Strands |-> 0]
    /\ sessions' = Drop(sessions, {k \in DOMAIN sessions : sessions[k].closed})
    /\ UNCHANGED <<rows, creating, cap, crashes, faults, heard>>

-----------------------------------------------------------------------------
Init ==
    /\ rows = EmptyMap /\ runRow = [status |-> "running", code |-> None]
    /\ engine = "running" /\ eng = FreshEngine
    /\ mail = Started /\ pc = [s \in Strands |-> 0]
    /\ sessions = EmptyMap /\ creating = {}
    /\ cap \in Caps /\ life = 1 /\ crashes = 0 /\ faults = 0
    /\ heard = [s \in Strands |-> [n \in 1..Len(Script[s]) |-> [status |-> "none", answer |-> 0]]]

(* What a runtime does with its head turn. *)
TurnStep(k) ==
    \/ SubmitAccepted(k) \/ SubmitRejected(k) \/ TurnResolves(k) \/ TurnCancelled(k)
    \/ TurnErrs(k) \/ TurnStopsRun(k) \/ TurnIsTransient(k)

Reports(k) == k \in DOMAIN sessions /\ \E i \in sessions[k].reporting : Report(k, i)

(* What the run does by itself. *)
Progress ==
    \/ Sandbox
    \/ \E k \in creating : SessionReady(k) \/ SessionFails(k)
    \/ \E r \in DOMAIN eng.actor : Dispatch(r)
    \/ \E k \in DOMAIN sessions : TurnStep(k) \/ RedriveFires(k) \/ Reports(k)

(* What is done to it. *)
Lifecycle ==
    \/ \E reason \in StopReasons : Stop(reason)
    \/ Crash \/ Reconcile \/ Resume

Next == Progress \/ Lifecycle

Spec == Init /\ [][Next]_vars

(* Fairness: while the sandbox has an answer to read, a session is being     *)
(* created, a settled promise waits for its continuation, a turn runs, a     *)
(* backoff timer or a transcript count is pending, one of them eventually    *)
(* goes on; which one is left open.  Nobody has to stop, crash or resume.    *)
(* Pending is ENABLED Progress written out.                                  *)
Pending ==
    \/ Running /\ mail # <<>>
    \/ creating # {}
    \/ Running /\ \E i \in DOMAIN eng.live :
          /\ eng.actor[eng.live[i].actor].current = i /\ ~eng.live[i].dispatched
          /\ eng.actor[eng.live[i].actor].session \in {"ready", "failed"}
    \/ \E k \in DOMAIN sessions :
          InTurn(k) \/ sessions[k].redrive # None \/ sessions[k].reporting # {}

Fairness == []<>(~Pending) \/ []<><<Progress>>_vars

FairSpec == Spec /\ Fairness

-----------------------------------------------------------------------------
(* Properties.                                                             *)

Refs == Range(ActorSite) \X (1..Cardinality(Agents))
Keys == (1..MaxLives) \X Refs
Instances == AskSites \X (1..Cardinality(UNION {{<<s, n>> : n \in 1..Len(Script[s])} : s \in Strands}))
Statuses == {"running", "completed", "failed"}

(* Types. *)
TypeOK ==
    /\ DOMAIN rows \subseteq Instances
    /\ \A i \in DOMAIN rows :
          rows[i].actor \in Refs /\ rows[i].seq \in Nat /\ rows[i].status \in Statuses
          /\ rows[i].answer \in 0..life
    /\ runRow.status \in {"running", "completed", "errored", "stopped"}
    /\ engine \in {"running", "settled", "none"}
    /\ life \in 1..MaxLives /\ crashes \in 0..MaxCrashes /\ faults \in 0..MaxFaults
    /\ pc \in [Strands -> Nat] /\ \A n \in DOMAIN mail : mail[n].strand \in Strands
    /\ DOMAIN sessions \subseteq Keys /\ creating \subseteq Keys
    /\ DOMAIN eng.actor \subseteq Refs /\ DOMAIN eng.live \subseteq DOMAIN rows
    /\ \A r \in DOMAIN eng.actor :
          eng.actor[r].session \in {"none", "pending", "ready", "failed"}

(* activeAsks is exactly the number of actors with an ask in flight, it      *)
(* never exceeds the run's cap, and every slot is held by an unsettled ask   *)
(* of its own actor, whatever order settlements and dispatches come in.      *)
SlotsAreAccounted ==
    Running =>
        /\ eng.active = Cardinality({r \in DOMAIN eng.actor : eng.actor[r].current # None})
        /\ eng.active <= cap
        /\ \A r \in DOMAIN eng.actor : eng.actor[r].current # None =>
              /\ eng.actor[r].current \in DOMAIN eng.live
              /\ eng.live[eng.actor[r].current].actor = r

(* The pump wastes no slot: while one is free, no idle actor has a queued ask. *)
NoIdleSlot ==
    (Running /\ eng.active < cap) =>
        \A r \in DOMAIN eng.actor : eng.actor[r].queue # <<>> => eng.actor[r].current # None

(* The hold rule: an actor's ask takes a slot only after every ask of that   *)
(* actor with a smaller sequence number, of this lifetime or an earlier one, *)
(* is final; and no two rows of an actor share a sequence number.            *)
AsksRunInOrder ==
    Running => \A i, j \in DOMAIN rows :
        (i # j /\ rows[i].actor = rows[j].actor) =>
            /\ rows[i].seq # rows[j].seq
            /\ (rows[j].seq < rows[i].seq /\ rows[i].actor \in DOMAIN eng.actor
                 /\ eng.actor[rows[i].actor].current = i) => Final(j)

(* A turn that may still submit belongs to the ask its session, its actor    *)
(* and the engine all hold in flight: no result is credited to another ask.  *)
TurnServesItsAsk ==
    \A k \in DOMAIN sessions :
        (InTurn(k) /\ Turn(k).mode = "run") =>
            LET i == Turn(k).inst IN
            /\ Running /\ k[1] = life
            /\ sessions[k].current = i /\ i \in DOMAIN eng.live
            /\ eng.live[i].dispatched /\ eng.actor[k[2]].current = i

(* No timer, late report or continuation starts a turn for an ask that is    *)
(* final or whose engine has settled: journalled answers are never paid for  *)
(* twice.                                                                    *)
TurnsStartForOpenAsks ==
    [][\A k \in DOMAIN sessions \cap DOMAIN sessions' :
          Len(sessions'[k].turns) > Len(sessions[k].turns) =>
            LET i == sessions'[k].turns[Len(sessions'[k].turns)].inst IN
            Running /\ k[1] = life /\ i \in DOMAIN rows /\ ~Final(i)]_vars

(* What a step of the script has been answered once, success or failure, it  *)
(* is answered again on every resume, by the same exchange.                  *)
AnswersRepeat ==
    [][\A s \in Strands : \A n \in DOMAIN heard[s] :
          heard[s][n].status # "none" => heard'[s][n] = heard[s][n]]_vars

(* A resume of an unchanged script finds every recorded input again: it is    *)
(* never failed for a journal mismatch.                                      *)
ReplayMatchesJournal == runRow.code # "InputHashMismatch"

(* The run and its asks behave as the ledger RunLedger promises.             *)
Ledger == INSTANCE RunLedger WITH
    asks <- [i \in DOMAIN rows |-> [status |-> rows[i].status, answer |-> rows[i].answer]],
    run <- IF runRow.code = "superseded" THEN "superseded" ELSE runRow.status
LedgerSpec == Ledger!Spec

(* A running engine settles its run: nothing an ask waits for is lost, on a  *)
(* first execution or a replay.                                              *)
RunEnds == Running ~> ~Running

=============================================================================
