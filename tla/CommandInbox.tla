---------------------------- MODULE CommandInbox ----------------------------
(***************************************************************************)
(* The v4 command path of one CLI process and its durable store: the       *)
(* admission inbox (command-inbox.ts), the gateway's handleCommand around  *)
(* it (v4-gateway.ts), the lazily loaded persistent command index          *)
(* (persistent-command-index.ts, persistent-command-facts.ts) and the      *)
(* session_input ledger it is loaded from (session-inputs.ts).             *)
(*                                                                         *)
(* A client may deliver one command any number of times: Req is the set of *)
(* deliveries, CmdOf the command each carries.  A delivery in Queries is a *)
(* v4/commands/query for the key, any other is a v4/command.  Each `await' *)
(* of the code is a step boundary; what runs between two awaits is one     *)
(* action, as it is on the event loop.                                     *)
(***************************************************************************)
EXTENDS Naturals, Sequences, FiniteSets

CONSTANTS
  Session,      \* sessions of the process
  Cmd,          \* command keys (sessionId, commandId)
  Req,          \* deliveries: first sends, retries and queries
  SessOf,       \* the session of a command
  CmdOf,        \* the command a delivery carries
  Queries,      \* the deliveries that are queries
  Inputs,       \* commands admitted to the session_input ledger
  Compacts,     \* the inputs that are /compact: no user message is written
  LruLimit,     \* PROTOCOL_V4_LIMITS.idempotencyTablePerSession
  MaxCrashes,   \* bound on process crashes
  MaxIdle,      \* bound on deactivations of idle sessions
  NoAck         \* absence of an ack

ASSUME ConstantsOK ==
  /\ SessOf \in [Cmd -> Session]
  /\ CmdOf \in [Req -> Cmd]
  /\ Queries \subseteq Req
  /\ Compacts \subseteq Inputs /\ Inputs \subseteq Cmd
  /\ NoAck \notin Cmd \cup {"accepted", "failed", "noop"}
  /\ LruLimit \in Nat \ {0} /\ MaxCrashes \in Nat /\ MaxIdle \in Nat

VARIABLES
  pc,         \* where each delivery is
  answer,     \* what each delivery was answered
  held,       \* the persistent fact a delivery is about to read
  keyQ,       \* keyGates: FIFO per command key, the head holds the gate
  sessQ,      \* sessionGates: FIFO per session, the head holds the gate
  inFlight,   \* commands admitted and not settled
  final,      \* the value the last in-flight promise of a key resolved to
  live,       \* liveInputs: the ack pinned with a queued input
  lru,        \* settled: recency rank of a remembered ack, 0 when absent
  settledAck, \* settled: the ack remembered
  seq,        \* admissionSeq of a session
  order,      \* the admission number a command was given
  owned,      \* the runtime's hold on an input: "no", "queued", "leaving"
  active,     \* sessions that have a resident runtime
  idxLoaded,  \* PersistentCommandIndex.sessions has the session
  idxFact,    \* ... and the fact it holds for a key
  ledger,     \* status of the session_input row of a command
  timeline,   \* commands with a durable v4/command_fact of source timeline
  runs,       \* how often executeCommand was called for a command
  orphans,    \* inputs whose ledger row was still admitted at a crash, until
              \* a resume fails to sweep them or they are executed again
  crashes, idles

reqVars   == <<pc, answer, held>>
gateVars  == <<keyQ, sessQ>>
memVars   == <<live, lru, settledAck>>
admVars   == <<inFlight, final, seq, order>>
idxVars   == <<idxLoaded, idxFact>>
diskVars  == <<ledger, timeline>>
countVars == <<orphans, crashes, idles>>
vars == <<reqVars, gateVars, memVars, admVars, idxVars, diskVars, countVars,
          owned, active, runs>>

Ack     == {"accepted", "failed", "noop"}
Answers == Ack \cup {"none", "duplicate", "unknown", "rejected", "unavailable"}
Ledger  == {"none", "admitted", "promoted", "cancelled", "removed", "discarded"}
PC      == {"new", "keyWait", "lookup", "await", "sessWait", "relookup",
            "admitted", "running", "handed", "cancelling", "done", "lost"}

\* The phases in which a delivery holds the gate of its session.
Gated == {"relookup", "admitted", "running", "handed", "cancelling"}
Executing == {"admitted", "running", "handed", "cancelling"}

TypeOK ==
  /\ pc \in [Req -> PC]
  /\ answer \in [Req -> Answers]
  /\ held \in [Req -> Ack \cup {NoAck}]
  /\ keyQ \in [Cmd -> Seq(Req)]
  /\ sessQ \in [Session -> Seq(Req)]
  /\ inFlight \subseteq Cmd
  /\ final \in [Cmd -> Ack \cup {NoAck}]
  /\ live \in [Cmd -> Ack \cup {NoAck}]
  /\ lru \in [Cmd -> 0..LruLimit]
  /\ settledAck \in [Cmd -> Ack \cup {NoAck}]
  /\ seq \in [Session -> Nat]
  /\ order \in [Cmd -> Nat]
  /\ owned \in [Cmd -> {"no", "queued", "leaving"}]
  /\ active \in [Session -> BOOLEAN]
  /\ idxLoaded \in [Session -> BOOLEAN]
  /\ idxFact \in [Cmd -> Ack \cup {NoAck}]
  /\ ledger \in [Cmd -> Ledger]
  /\ timeline \subseteq Cmd
  /\ runs \in [Cmd -> Nat]
  /\ orphans \subseteq Cmd
  /\ crashes \in Nat /\ idles \in Nat

Init ==
  /\ pc = [r \in Req |-> "new"]
  /\ answer = [r \in Req |-> "none"]
  /\ held = [r \in Req |-> NoAck]
  /\ keyQ = [c \in Cmd |-> <<>>]
  /\ sessQ = [s \in Session |-> <<>>]
  /\ inFlight = {}
  /\ final = [c \in Cmd |-> NoAck]
  /\ live = [c \in Cmd |-> NoAck]
  /\ lru = [c \in Cmd |-> 0]
  /\ settledAck = [c \in Cmd |-> NoAck]
  /\ seq = [s \in Session |-> 0]
  /\ order = [c \in Cmd |-> 0]
  /\ owned = [c \in Cmd |-> "no"]
  /\ active = [s \in Session |-> TRUE]
  /\ idxLoaded = [s \in Session |-> FALSE]
  /\ idxFact = [c \in Cmd |-> NoAck]
  /\ ledger = [c \in Cmd |-> "none"]
  /\ timeline = {}
  /\ runs = [c \in Cmd |-> 0]
  /\ orphans = {}
  /\ crashes = 0 /\ idles = 0

S(r) == SessOf[CmdOf[r]]
-----------------------------------------------------------------------------
(* The settled table: an insertion-ordered Map per session.  Rank 1 is the *)
(* newest entry; the entry pushed past LruLimit is evicted.                *)

\* The table grows without evicting.
NewestUnbounded(f, c) ==
  [d \in Cmd |->
     IF SessOf[d] # SessOf[c] THEN f[d]
     ELSE IF d = c THEN 1
     ELSE IF f[d] # 0 /\ (f[c] = 0 \/ f[d] < f[c]) THEN f[d] + 1 ELSE f[d]]

Newest(f, c) ==
  [d \in Cmd |->
     IF SessOf[d] # SessOf[c] THEN f[d]
     ELSE IF d = c THEN 1
     ELSE IF f[d] # 0 /\ (f[c] = 0 \/ f[d] < f[c])
          THEN IF f[d] = LruLimit THEN 0 ELSE f[d] + 1
          ELSE f[d]]

Without(f, c) ==
  [d \in Cmd |->
     IF d = c THEN 0
     ELSE IF SessOf[d] = SessOf[c] /\ f[c] # 0 /\ f[d] > f[c] THEN f[d] - 1
     ELSE f[d]]

Remember(c, a) ==
  /\ lru' = Newest(lru, c)
  /\ settledAck' = [settledAck EXCEPT ![c] = a]
-----------------------------------------------------------------------------
(* What the durable store says of a command, in the priority order of the  *)
(* four lookups: transcript, timeline, child, discarded.                   *)

DurableFact(led, c) ==
  CASE led[c] = "promoted"                             -> "accepted"
    [] led[c] # "promoted" /\ c \in timeline           -> "accepted"
    [] c \notin timeline
       /\ led[c] \in {"cancelled", "removed", "discarded"} -> "failed"
    [] OTHER                                           -> NoAck

\* Loading a session that has no resident runtime, and resuming one, settles
\* the admitted rows a previous process left behind, one row at a time.
Admitted(s) == {c \in Cmd : SessOf[c] = s /\ ledger[c] = "admitted"}
Swept(rows) == [c \in Cmd |-> IF c \in rows THEN "discarded" ELSE ledger[c]]

\* ensureSession: the index of s as a waiter sees it after its await.
EnsureIndex(s) ==
  IF idxLoaded[s]
  THEN UNCHANGED <<idxVars, ledger>>
  ELSE LET led == IF active[s] THEN ledger ELSE Swept(Admitted(s)) IN
       /\ ledger' = led
       /\ idxLoaded' = [idxLoaded EXCEPT ![s] = TRUE]
       /\ idxFact' = [c \in Cmd |-> IF SessOf[c] = s THEN DurableFact(led, c)
                                    ELSE idxFact[c]]

\* The index is left as it is: the fault the gateway's comment describes.
KeepIndex(s) == UNCHANGED idxVars

Invalidate(s) ==
  /\ idxLoaded' = [idxLoaded EXCEPT ![s] = FALSE]
  /\ idxFact' = [c \in Cmd |-> IF SessOf[c] = s THEN NoAck ELSE idxFact[c]]
-----------------------------------------------------------------------------
\* retryAck: failed is a terminal fact a duplicate may not cover.
RetryAck(a) == IF a = "failed" THEN "failed" ELSE "duplicate"

\* The answer of a delivery that found ack a: a query returns it as it is.
Found(r, a) == IF r \in Queries THEN a ELSE RetryAck(a)

ReleaseKey(r)  == keyQ' = [keyQ EXCEPT ![CmdOf[r]] = Tail(@)]
ReleaseSession(r) == sessQ' = [sessQ EXCEPT ![S(r)] = Tail(@)]

\* Nobody waits for the session gate.
AnyWaiter(r) == pc[r] = "sessWait"

\* A delivery that has reached the head of the gate it was waiting for runs
\* on: handle() looks the key up after either gate.
AtKeyGate(r)     == pc[r] = "keyWait" /\ Head(keyQ[CmdOf[r]]) = r
AtSessionGate(r) == pc[r] = "sessWait" /\ Head(sessQ[S(r)]) = r

Reply(r, a) ==
  /\ answer' = [answer EXCEPT ![r] = a]
  /\ pc' = [pc EXCEPT ![r] = "done"]
  /\ held' = [held EXCEPT ![r] = NoAck]

\* releaseSession() where the gate is held, then the finally's releaseKey().
ReleaseGates(r) ==
  /\ ReleaseKey(r)
  /\ IF pc[r] \in {"sessWait", "relookup"} THEN ReleaseSession(r)
                                           ELSE UNCHANGED sessQ
-----------------------------------------------------------------------------
(* handle() and queryOne() up to the decision.                             *)

Arrive(r) ==
  /\ pc[r] = "new"
  /\ pc' = [pc EXCEPT ![r] = "keyWait"]
  /\ keyQ' = [keyQ EXCEPT ![CmdOf[r]] = Append(@, r)]
  /\ UNCHANGED <<answer, held, sessQ, memVars, admVars, idxVars, diskVars,
                 countVars, owned, active, runs>>

\* The admission ack is handed out before the command is final.
AnswerInFlightAtOnce(r) ==
  /\ AtKeyGate(r)
  /\ CmdOf[r] \in inFlight
  /\ Reply(r, Found(r, "accepted"))
  /\ ReleaseGates(r)
  /\ UNCHANGED <<memVars, admVars, idxVars, diskVars, countVars, owned,
                 active, runs>>

\* A pinned in-flight entry: await its final, keeping the key gate.
JoinInFlight(r) ==
  /\ AtKeyGate(r)
  /\ CmdOf[r] \in inFlight
  /\ pc' = [pc EXCEPT ![r] = "await"]
  /\ UNCHANGED <<answer, held, gateVars, memVars, admVars, idxVars, diskVars,
                 countVars, owned, active, runs>>

AwaitFinal(r) ==
  /\ pc[r] = "await"
  /\ CmdOf[r] \notin inFlight
  /\ Reply(r, Found(r, final[CmdOf[r]]))
  /\ ReleaseGates(r)
  /\ UNCHANGED <<memVars, admVars, idxVars, diskVars, countVars, owned,
                 active, runs>>

\* lookupExact: a live input, else a settled ack, which is touched.
ReplyFromMemory(r) ==
  LET c == CmdOf[r] IN
  /\ AtKeyGate(r) \/ AtSessionGate(r)
  /\ c \notin inFlight
  /\ \/ /\ live[c] # NoAck
        /\ Reply(r, Found(r, live[c]))
        /\ UNCHANGED memVars
     \/ /\ live[c] = NoAck /\ lru[c] # 0
        /\ Reply(r, Found(r, settledAck[c]))
        /\ lru' = Newest(lru, c)
        /\ UNCHANGED <<live, settledAck>>
  /\ ReleaseGates(r)
  /\ UNCHANGED <<admVars, idxVars, diskVars, countVars, owned, active, runs>>

\* Nothing in memory: start awaiting the persistent index.
StartLookup(r) ==
  LET c == CmdOf[r] IN
  /\ AtKeyGate(r) \/ AtSessionGate(r)
  /\ c \notin inFlight /\ live[c] = NoAck /\ lru[c] = 0
  /\ EnsureIndex(S(r))
  /\ held' = [held EXCEPT ![r] = idxFact'[c]]
  /\ pc' = [pc EXCEPT ![r] = IF AtKeyGate(r) THEN "lookup" ELSE "relookup"]
  /\ UNCHANGED <<answer, gateVars, memVars, admVars, timeline, countVars,
                 owned, active, runs>>

LookupHit(r) ==
  /\ pc[r] \in {"lookup", "relookup"}
  /\ held[r] # NoAck
  /\ Reply(r, Found(r, held[r]))
  /\ ReleaseGates(r)
  /\ UNCHANGED <<memVars, admVars, idxVars, diskVars, countVars, owned,
                 active, runs>>

\* The load rejects, perhaps halfway through its sweep:
\* fault.command.queryUnavailable.  A rejected load is not kept, the next
\* delivery loads again.
LookupFault(r) ==
  LET c == CmdOf[r] IN
  /\ AtKeyGate(r) \/ AtSessionGate(r)
  /\ c \notin inFlight /\ live[c] = NoAck /\ lru[c] = 0
  /\ ~idxLoaded[S(r)]
  /\ \/ UNCHANGED ledger
     \/ ~active[S(r)] /\ \E rows \in SUBSET Admitted(S(r)) : ledger' = Swept(rows)
  /\ Reply(r, "unavailable")
  /\ ReleaseGates(r)
  /\ UNCHANGED <<memVars, admVars, idxVars, timeline, countVars, owned,
                 active, runs>>

QueryMiss(r) ==
  /\ pc[r] = "lookup" /\ held[r] = NoAck
  /\ r \in Queries
  /\ Reply(r, "unknown")
  /\ ReleaseGates(r)
  /\ UNCHANGED <<memVars, admVars, idxVars, diskVars, countVars, owned,
                 active, runs>>

\* Key gate first, then the session gate.
WaitForSession(r) ==
  /\ pc[r] = "lookup" /\ held[r] = NoAck
  /\ r \notin Queries
  /\ pc' = [pc EXCEPT ![r] = "sessWait"]
  /\ sessQ' = [sessQ EXCEPT ![S(r)] = Append(@, r)]
  /\ UNCHANGED <<answer, held, keyQ, memVars, admVars, idxVars, diskVars,
                 countVars, owned, active, runs>>
-----------------------------------------------------------------------------
(* decide(), and what follows it in the same tick.                         *)

\* sessionNotFound for a session with no runtime; for a resident one the CAS
\* and row-target checks may refuse.  A refusal is not remembered.
Reject(r) ==
  /\ pc[r] = "relookup" /\ held[r] = NoAck
  /\ Reply(r, "rejected")
  /\ ReleaseGates(r)
  /\ UNCHANGED <<memVars, admVars, idxVars, diskVars, countVars, owned,
                 active, runs>>

\* Pin the command in flight, then release the key gate; the session gate
\* stays with the delivery until settle().
Admit(r) ==
  LET c == CmdOf[r] IN
  /\ pc[r] = "relookup" /\ held[r] = NoAck /\ active[S(r)]
  /\ seq' = [seq EXCEPT ![S(r)] = @ + 1]
  /\ order' = [order EXCEPT ![c] = seq'[S(r)]]
  /\ inFlight' = inFlight \cup {c}
  /\ ReleaseKey(r)
  /\ pc' = [pc EXCEPT ![r] = "admitted"]
  /\ UNCHANGED <<answer, held, sessQ, final, memVars, idxVars, diskVars,
                 countVars, owned, active, runs>>
-----------------------------------------------------------------------------
(* The gateway's handleCommand after an "execute" outcome.                 *)

\* admitCommandInput writes the ledger row (an existing row keeps its
\* status), pinLiveInput pins the intent, executeCommand is called.
StartExecute(r) ==
  LET c == CmdOf[r] IN
  /\ pc[r] = "admitted"
  /\ pc' = [pc EXCEPT ![r] = "running"]
  /\ runs' = [runs EXCEPT ![c] = @ + 1]
  /\ orphans' = orphans \ {c}
  /\ IF c \in Inputs
     THEN /\ ledger' = [ledger EXCEPT ![c] = IF @ = "none" THEN "admitted" ELSE @]
          /\ live' = [live EXCEPT ![c] = "accepted"]
          /\ lru' = Without(lru, c)
     ELSE UNCHANGED <<ledger, live, lru>>
  /\ UNCHANGED <<answer, held, gateVars, settledAck, admVars, idxVars,
                 timeline, crashes, idles, owned, active>>

\* The handler gives the input to the runtime: a turn starts or it queues.
HandOff(r) ==
  LET c == CmdOf[r] IN
  /\ pc[r] = "running" /\ c \in Inputs
  /\ pc' = [pc EXCEPT ![r] = "handed"]
  /\ owned' = [owned EXCEPT ![c] = "queued"]
  /\ UNCHANGED <<answer, held, gateVars, memVars, admVars, idxVars, diskVars,
                 countVars, active, runs>>

\* The finally of settle() is skipped.
SettleKeepingSession(r, a) ==
  LET c == CmdOf[r] IN
  /\ inFlight' = inFlight \ {c}
  /\ final' = [final EXCEPT ![c] = a]
  /\ Reply(r, a)
  /\ UNCHANGED <<sessQ, keyQ, seq, order>>

\* settle(): the final goes to the live entry or to the settled table, the
\* waiters are resolved, the session gate is released.
Settle(r, a) ==
  LET c == CmdOf[r] IN
  /\ inFlight' = inFlight \ {c}
  /\ final' = [final EXCEPT ![c] = a]
  /\ Reply(r, a)
  /\ ReleaseSession(r)
  /\ UNCHANGED <<keyQ, seq, order>>

\* releaseDurableInput() and settle() of a command that did not execute: a
\* pinned input is unpinned, and the final is remembered.
SettleFault(r, a) ==
  /\ Settle(r, a)
  /\ live' = [live EXCEPT ![CmdOf[r]] = NoAck]
  /\ Remember(CmdOf[r], a)
  /\ UNCHANGED <<idxVars, diskVars, countVars, owned, active, runs>>

\* The projection would overflow, or the ledger refused the row.
AdmitFault(r) ==
  /\ pc[r] = "admitted"
  /\ SettleFault(r, "failed")

\* The final is pinned whether or not the pin is still there.
ExecuteOkPinning(r) ==
  LET c == CmdOf[r] IN
  /\ pc[r] = IF c \in Inputs THEN "handed" ELSE "running"
  /\ Settle(r, "accepted")
  /\ IF c \in Inputs
     THEN /\ live' = [live EXCEPT ![c] = "accepted"]
          /\ UNCHANGED <<lru, settledAck>>
     ELSE Remember(c, "accepted") /\ UNCHANGED live
  /\ UNCHANGED <<idxVars, diskVars, countVars, owned, active, runs>>

ExecuteOk(r) ==
  LET c == CmdOf[r] IN
  /\ pc[r] = IF c \in Inputs THEN "handed" ELSE "running"
  /\ Settle(r, "accepted")
  /\ IF live[c] # NoAck
     THEN /\ live' = [live EXCEPT ![c] = "accepted"]
          /\ UNCHANGED <<lru, settledAck>>
     ELSE Remember(c, "accepted") /\ UNCHANGED live
  /\ UNCHANGED <<idxVars, diskVars, countVars, owned, active, runs>>

\* The handler threw: cancel the ledger row.  The cancel may itself fail and
\* is then only reported.
ExecuteFault(r) ==
  LET c == CmdOf[r] IN
  /\ pc[r] = "running"
  /\ pc' = [pc EXCEPT ![r] = "cancelling"]
  /\ \/ ledger' = [ledger EXCEPT ![c] = IF @ = "admitted" THEN "cancelled" ELSE @]
     \/ UNCHANGED ledger
  /\ UNCHANGED <<answer, held, gateVars, memVars, admVars, idxVars, timeline,
                 countVars, owned, active, runs>>

\* releaseDurableInput and settle with the same final, in one tick.  The
\* persistent index is not invalidated on this path.
SettleExecuteFault(r) ==
  /\ pc[r] = "cancelling"
  /\ \E a \in {"failed", "noop"} : SettleFault(r, a)
-----------------------------------------------------------------------------
(* The runtime's side of a queued input.                                   *)

\* promoteSessionInput: user message and ledger status in one transaction.
Promote(c) ==
  /\ c \in Inputs \ Compacts /\ owned[c] = "queued"
  /\ ledger' = [ledger EXCEPT ![c] = "promoted"]
  /\ owned' = [owned EXCEPT ![c] = "leaving"]
  /\ UNCHANGED <<reqVars, gateVars, memVars, admVars, idxVars, timeline,
                 countVars, active, runs>>

\* A started turn ends before its user message is persisted: the model cannot
\* be created, or a UserPromptSubmit hook stops it.  Neither the ledger nor the
\* gateway hears of it.
EndUnpersisted(c) ==
  /\ c \in Inputs \ Compacts /\ owned[c] = "queued"
  /\ owned' = [owned EXCEPT ![c] = "no"]
  /\ UNCHANGED <<reqVars, gateVars, memVars, admVars, idxVars, diskVars,
                 countVars, active, runs>>

\* deleteQueueItem: the ledger is settled before the queue forgets the item.
RemoveByUser(c) ==
  /\ owned[c] = "queued"
  /\ ledger' = [ledger EXCEPT ![c] = IF @ = "admitted" THEN "removed" ELSE @]
  /\ owned' = [owned EXCEPT ![c] = "leaving"]
  /\ UNCHANGED <<reqVars, gateVars, memVars, admVars, idxVars, timeline,
                 countVars, active, runs>>

\* SessionInputPromoted or TurnSteerDiscarded reaches the gateway: the index
\* is invalidated, then releaseLiveInput moves the pinned ack to settled.
ReleaseLiveInput(c) ==
  /\ owned[c] = "leaving"
  /\ owned' = [owned EXCEPT ![c] = "no"]
  /\ Invalidate(SessOf[c])
  /\ live' = [live EXCEPT ![c] = NoAck]
  /\ IF live[c] # NoAck THEN Remember(c, live[c])
                        ELSE UNCHANGED <<lru, settledAck>>
  /\ UNCHANGED <<reqVars, gateVars, admVars, diskVars, countVars, active, runs>>

\* A compact ran: its timeline fact is saved and recorded into the index.  A
\* failed write is only reported.  Nothing unpins the live input.
FinishCompact(c) ==
  /\ c \in Compacts /\ owned[c] = "queued"
  /\ owned' = [owned EXCEPT ![c] = "no"]
  /\ \/ /\ timeline' = timeline \cup {c}
        /\ idxLoaded' = [idxLoaded EXCEPT ![SessOf[c]] = TRUE]
        /\ idxFact' = [d \in Cmd |->
             IF d = c THEN "accepted"
             ELSE IF SessOf[d] = SessOf[c] /\ ~idxLoaded[SessOf[c]]
                  THEN DurableFact(ledger, d) ELSE idxFact[d]]
     \/ UNCHANGED <<timeline, idxVars>>
  /\ UNCHANGED <<reqVars, gateVars, memVars, admVars, ledger, countVars,
                 active, runs>>
-----------------------------------------------------------------------------
(* Residency and process lifetime.                                         *)

Pinned(s) == \E c \in Cmd : SessOf[c] = s /\ (c \in inFlight \/ live[c] # NoAck)

\* The pool reclaims only when no request holds an operation lease.
Quiescent == \A r \in Req : pc[r] \in {"new", "done", "lost"}

\* clearSession without its guard.
DeactivatePinned(s) ==
  /\ idles < MaxIdle /\ idles' = idles + 1
  /\ active[s] /\ Quiescent
  /\ \A c \in Cmd : SessOf[c] = s => owned[c] = "no"
  /\ active' = [active EXCEPT ![s] = FALSE]
  /\ lru' = [c \in Cmd |-> IF SessOf[c] = s THEN 0 ELSE lru[c]]
  /\ seq' = [seq EXCEPT ![s] = 0]
  /\ UNCHANGED <<reqVars, gateVars, live, settledAck, inFlight, final, order,
                 idxVars, diskVars, orphans, crashes, owned, runs>>

\* An idle session's runtime is dropped; clearSession() forgets its settled
\* acks and its admission counter.  The persistent index is kept.
Deactivate(s) ==
  /\ idles < MaxIdle /\ idles' = idles + 1
  /\ active[s] /\ Quiescent /\ ~Pinned(s)
  /\ \A c \in Cmd : SessOf[c] = s => owned[c] = "no"
  /\ active' = [active EXCEPT ![s] = FALSE]
  /\ lru' = [c \in Cmd |-> IF SessOf[c] = s THEN 0 ELSE lru[c]]
  /\ seq' = [seq EXCEPT ![s] = 0]
  /\ UNCHANGED <<reqVars, gateVars, live, settledAck, inFlight, final, order,
                 idxVars, diskVars, orphans, crashes, owned, runs>>

\* Cold resume: discardPersistedPendingSteerInputs sweeps the ledger.  A
\* store that fails on the way is only reported: the resume goes on.
Resume(s) ==
  /\ ~active[s]
  /\ active' = [active EXCEPT ![s] = TRUE]
  /\ \E rows \in SUBSET Admitted(s) :
       /\ ledger' = Swept(rows)
       /\ orphans' = orphans \ (Admitted(s) \ rows)
  /\ UNCHANGED <<reqVars, gateVars, memVars, admVars, idxVars, timeline,
                 crashes, idles, owned, runs>>

\* The process dies: only the store survives.  Open requests are lost.
Crash ==
  /\ crashes < MaxCrashes /\ crashes' = crashes + 1
  /\ pc' = [r \in Req |-> IF pc[r] \in {"new", "done"} THEN pc[r] ELSE "lost"]
  /\ held' = [r \in Req |-> NoAck]
  /\ keyQ' = [c \in Cmd |-> <<>>]
  /\ sessQ' = [s \in Session |-> <<>>]
  /\ inFlight' = {}
  /\ live' = [c \in Cmd |-> NoAck]
  /\ lru' = [c \in Cmd |-> 0]
  /\ settledAck' = [c \in Cmd |-> NoAck]
  /\ seq' = [s \in Session |-> 0]
  /\ owned' = [c \in Cmd |-> "no"]
  /\ active' = [s \in Session |-> FALSE]
  /\ idxLoaded' = [s \in Session |-> FALSE]
  /\ idxFact' = [c \in Cmd |-> NoAck]
  /\ orphans' = orphans \cup {c \in Cmd : ledger[c] = "admitted"}
  /\ UNCHANGED <<answer, final, order, diskVars, idles, runs>>
-----------------------------------------------------------------------------
Handle(r) ==
  \/ JoinInFlight(r) \/ AwaitFinal(r) \/ ReplyFromMemory(r)
  \/ StartLookup(r) \/ LookupHit(r) \/ QueryMiss(r) \/ WaitForSession(r)

Decide(r) == Reject(r) \/ Admit(r)

Execute(r) ==
  \/ StartExecute(r) \/ HandOff(r) \/ AdmitFault(r) \/ ExecuteOk(r)
  \/ ExecuteFault(r) \/ SettleExecuteFault(r)

Runtime(c) == Promote(c) \/ EndUnpersisted(c) \/ RemoveByUser(c)
              \/ ReleaseLiveInput(c) \/ FinishCompact(c)

Next ==
  \/ \E r \in Req : Arrive(r) \/ Handle(r) \/ LookupFault(r) \/ Decide(r)
                    \/ Execute(r)
  \/ \E c \in Cmd : Runtime(c)
  \/ \E s \in Session : Deactivate(s) \/ Resume(s)
  \/ Crash

Spec == Init /\ [][Next]_vars

\* The event loop resumes an await and hands a gate on, and what is awaited
\* ends: some open delivery goes on.  Nothing obliges a client to send, a user
\* to delete, a store to fail, a process to crash or the runtime to work its
\* queue off: Stop and a failed turn hold the queue until the user acts.
Fairness == WF_vars(\E r \in Req : Handle(r) \/ Decide(r) \/ Execute(r))

FairSpec == Spec /\ Fairness
-----------------------------------------------------------------------------
(* Properties.                                                             *)

\* The session gate is held from admission to settle(), across every await
\* of handleCommand: one command of a session executes at a time.
SessionSerial ==
  \A q, r \in Req : pc[q] \in Executing /\ pc[r] \in Executing /\ S(q) = S(r)
                    => q = r

\* The command a session executes, read off its gate.
Running(s) ==
  IF sessQ[s] # <<>> /\ pc[Head(sessQ[s])] \in Executing
  THEN CmdOf[Head(sessQ[s])] ELSE NoAck

Serial == INSTANCE SerialExecution
            WITH running <- [s \in Session |-> Running(s)], Idle <- NoAck

\* Admission through the two gates implements serial execution per session.
ImplementsSerial == Serial!Spec

\* Of two commands of a session that are both pinned, one was admitted
\* before the other: the numbers the queue orders them by differ, although
\* deactivation resets the counter.
PinnedInOrder ==
  \A c, d \in Cmd :
    /\ c # d /\ SessOf[c] = SessOf[d]
    /\ c \in inFlight \/ live[c] # NoAck
    /\ d \in inFlight \/ live[d] # NoAck
    => order[c] # order[d]

\* A retry or a query of a command that is executing gets no answer before
\* the command is final: the admission ack alone lacks the result.
AnsweredAfterFinal ==
  [][\A r \in Req : answer'[r] \in {"duplicate", "accepted"} /\ answer[r] = "none"
       => \/ CmdOf[r] \notin inFlight
          \/ pc[r] \in Executing]_vars

\* The durable facts the index is there to remember.
Recorded(c) == ledger[c] \in {"promoted", "removed"} \/ c \in timeline

\* An input that is in the transcript, in the timeline, deleted by the user
\* or queued is not executed again, whatever was evicted, deactivated or
\* restarted in between; nor is one a crash left queued, once a sweep has
\* told the user that it was discarded.
NeverRunTwice ==
  [][\A c \in Cmd : runs'[c] # runs[c]
       => /\ ~Recorded(c) /\ live[c] = NoAck
          /\ ~(c \in orphans /\ ledger[c] = "discarded")]_runs

\* ... and a query does not call it unknown, which would make the client
\* send it again.
KnownWhenRecorded ==
  [][\A r \in Req : answer'[r] = "unknown" /\ answer[r] = "none"
       => ~Recorded(CmdOf[r]) /\ live[CmdOf[r]] = NoAck
          /\ CmdOf[r] \notin inFlight]_answer

\* The gateway releases a failed input once its ledger row is cancelled; a
\* cancelled row is a terminal fact, so the same command is not run again.
CancelledNeverRuns ==
  [][\A c \in Cmd : runs'[c] # runs[c] => ledger[c] # "cancelled"]_runs

\* The two gates are always taken in the same order and always given back:
\* again and again no delivery is open, so every delivery (of a finite number)
\* is answered, unless the process dies.
EveryDeliveryAnswered == []<>Quiescent

\* A promotion or a deletion may overtake the settle() of the delivery that
\* queued the input: once recorded, an input is not pinned again, which nothing
\* would undo.
NoLatePin ==
  [][\A c \in Cmd : live[c] = NoAck /\ live'[c] # NoAck => ~Recorded(c)]_live
=============================================================================
