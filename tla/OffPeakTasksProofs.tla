------------------------- MODULE OffPeakTasksProofs -------------------------
(***************************************************************************)
(* Proofs about OffPeakTasks for any bounds: type correctness, and that a  *)
(* task is executed at most once at a time unless a dispatch has outlived  *)
(* its claim.                                                              *)
(*                                                                         *)
(* Claims carry no owner, so one execution at a time rests on the order of *)
(* claim, answer and write: Alone, Claimed and Served say what that order  *)
(* leaves possible until a claim falls back under a dispatch (overtaken),  *)
(* Gone what an exit of the app restores, and OneExecution follows.        *)
(***************************************************************************)
EXTENDS OffPeakTasks, TLAPS

\* There is one claim in flight at most and one turn, and both only between
\* the start of the turn and the settlement of its answer.
Alone ==
    /\ \A a, b \in attempts : a = b
    /\ \A t, u \in turns : t = u
    /\ \A a \in attempts, t \in turns : a.at = "ok"

\* The row of a claim in flight still waits and is claimed, or is final.
Claimed ==
    attempts # {} => \/ row.status \in Terminal
                     \/ row.status = "queued" /\ row.claim = "fresh"

\* The row of a turn is running or final, or the answer that makes it running
\* is on its way.
Served == turns # {} => row.status \in Terminal \cup {"running"} \/ attempts # {}

\* Nothing is in flight while the app is closed.
Gone == ~up => attempts = {} /\ turns = {}

Order == Alone /\ Claimed /\ Served

IInv == TypeOK /\ Gone /\ (overtaken \/ Order)
-----------------------------------------------------------------------------
(* Initial states, and what follows from the invariant.                    *)

LEMMA InitInv == Init => IInv
<1> SUFFICES ASSUME Init PROVE IInv
  OBVIOUS
<1>1. PICK first \in {"queued", "ready"} :
        /\ row = [status |-> "queued", schedulable |-> first = "ready",
                  claim |-> "free", ticket |-> 1]
        /\ tickets = [t \in {1} |-> first]
  BY DEF Init
<1>2. RowOK /\ TicketsOK
  BY <1>1, OffPeakAssumption DEF OffPeakAssumption, RowOK, TicketsOK,
     Status, TicketState, TicketIds
<1>3. AttemptsOK /\ TurnsOK /\ TakenOK
  BY DEF Init, AttemptsOK, TurnsOK, TakenOK
<1>4. InquiryOK
  BY DEF Init, InquiryOK
<1>5. FlagsOK
  BY DEF Init, FlagsOK
<1>6. BoundsOK
  <2>1. {MaxClaims, MaxUpsets, MaxCrashes, MaxFaults} \subseteq Nat
    BY OffPeakAssumption DEF OffPeakAssumption
  <2> QED
    BY <2>1 DEF Init, BoundsOK
<1> QED
  BY <1>2, <1>3, <1>4, <1>5, <1>6 DEF Init, IInv, Order, TypeOK, Alone, Claimed, Served, Gone

LEMMA OneFollows == IInv => OneExecution
<1> SUFFICES ASSUME Order PROVE SingleFlight
  BY DEF IInv, OneExecution
<1>1. ASSUME NEW x \in Executions, NEW y \in Executions PROVE x = y
  BY DEF Order, Alone, Executions
<1>2. ASSUME row.status = "paused" PROVE Executions = {}
  BY <1>2 DEF Order, Claimed, Served, Executions, Terminal
<1> QED
  BY <1>1, <1>2 DEF SingleFlight
-----------------------------------------------------------------------------
(* Type correctness.                                                       *)

\* The updates of the repository keep the shape of a row.
Row(r) ==
    /\ r \in [status : Status, schedulable : BOOLEAN,
              claim : {"free", "fresh", "stale"}, ticket : DOMAIN tickets]
    /\ r.claim # "free" => r.status = "queued"

LEMMA UpdatesKeepRow ==
  ASSUME RowOK
  PROVE  /\ Row(markRunning) /\ Row(releaseClaim) /\ Row(requeueForContinuation)
         /\ Row(recoverInterrupted)
         /\ \A end \in Terminal : Row(markTerminal(end))
<1> USE DEF RowOK, Row, Status
<1>1. Row(markRunning)
  BY DEF markRunning
<1>2. Row(releaseClaim) /\ Row(requeueForContinuation)
  BY DEF releaseClaim, requeueForContinuation
<1>3. Row(recoverInterrupted)
  BY DEF recoverInterrupted
<1>4. ASSUME NEW end \in Terminal PROVE Row(markTerminal(end))
  BY DEF markTerminal
<1> QED
  BY <1>1, <1>2, <1>3, <1>4
\* What was typed stays typed when tickets are added.
LEMMA TicketsAdded ==
  ASSUME TypeOK, DOMAIN tickets \subseteq DOMAIN tickets', claims' = claims
  PROVE  /\ row' = row => RowOK'
         /\ Row(row') => RowOK'
         /\ attempts' = attempts => AttemptsOK'
         /\ turns' = turns => TurnsOK'
         /\ inquiry' = inquiry => InquiryOK'
         /\ taken' = taken => TakenOK'
<1> USE DEF TypeOK
<1>1. row' = row => RowOK'
  BY DEF RowOK
<1>2. Row(row') => RowOK'
  BY DEF Row, RowOK
<1>3. attempts' = attempts => AttemptsOK'
  BY DEF AttemptsOK
<1>4. turns' = turns => TurnsOK'
  BY DEF TurnsOK
<1>5. ASSUME inquiry' = inquiry PROVE InquiryOK'
  BY <1>5 DEF InquiryOK
<1>6. taken' = taken => TakenOK'
  BY DEF TakenOK
<1> QED
  BY <1>1, <1>2, <1>3, <1>4, <1>5, <1>6

\* A taken ticket is one of the bound, and none is lost.
LEMMA TakeTicketTyped ==
  ASSUME TypeOK, NEW owner \in Asker \cup {"turn"}, TakeTicket(owner)
  PROVE  /\ TicketsOK' /\ TakenOK' /\ faults' \in 0 .. MaxFaults
         /\ DOMAIN tickets \subseteq DOMAIN tickets'
<1> DEFINE next == Cardinality(DOMAIN tickets) + 1
<1> USE DEF TypeOK
<1>1. ASSUME NEW state \in {"queued", "ready"}, next \in TicketIds,
             tickets' = [t \in DOMAIN tickets \cup {next} |->
                           IF t = next THEN state ELSE tickets[t]],
             taken' = taken \cup {[owner |-> owner, ticket |-> next,
                                   ready |-> state = "ready"]},
             UNCHANGED faults
      PROVE  /\ TicketsOK' /\ TakenOK' /\ faults' \in 0 .. MaxFaults
             /\ DOMAIN tickets \subseteq DOMAIN tickets'
  <2> HIDE DEF next
  <2>1. DOMAIN tickets' = DOMAIN tickets \cup {next}
    BY <1>1
  <2>2. TicketsOK'
    BY <1>1, <2>1 DEF TicketsOK, TicketState
  <2>3. TakenOK'
    <3> DEFINE new == [owner |-> owner, ticket |-> next, ready |-> state = "ready"]
    <3>1. new \in [owner : Asker \cup {"turn"}, ticket : DOMAIN tickets', ready : BOOLEAN]
      BY <2>1
    <3>2. taken \subseteq [owner : Asker \cup {"turn"}, ticket : DOMAIN tickets',
                          ready : BOOLEAN]
      BY <2>1 DEF TakenOK
    <3>3. taken' = taken \cup {new}
      BY <1>1
    <3> HIDE DEF new
    <3> QED
      BY <3>1, <3>2, <3>3 DEF TakenOK
  <2> QED
    BY <1>1, <2>1, <2>2, <2>3 DEF BoundsOK
<1>2. ASSUME \/ next \notin TicketIds
             \/ faults < MaxFaults,
             faults' = IF next \in TicketIds THEN faults + 1 ELSE faults,
             UNCHANGED <<tickets, taken>>
      PROVE  /\ TicketsOK' /\ TakenOK' /\ faults' \in 0 .. MaxFaults
             /\ DOMAIN tickets \subseteq DOMAIN tickets'
  <2> HIDE DEF next
  <2>1. faults' \in 0 .. MaxFaults
    BY <1>2, OffPeakAssumption DEF BoundsOK, OffPeakAssumption
  <2> QED
    BY <1>2, <2>1 DEF TicketsOK, TakenOK
<1> QED
  BY <1>1, <1>2 DEF TakeTicket

\* Every step keeps the types.
LEMMA TypeStep ==
  ASSUME TypeOK, [Next]_vars
  PROVE  TypeOK'
<1> USE DEF TypeOK, server, service, clock, bounds
<1>1. CASE Tick
  <2>1. DOMAIN tickets \subseteq DOMAIN tickets' /\ TicketsOK' /\ TurnsOK'
        /\ InquiryOK' /\ TakenOK' /\ FlagsOK'
    BY <1>1 DEF Tick, claimDue, TicketsOK, TurnsOK, BoundsOK, InquiryOK, TakenOK, FlagsOK
  <2>2. RowOK'
    BY <1>1 DEF Tick, claimDue, Due, Reclaimed, RowOK
  <2>3. AttemptsOK'
    <3>1. CASE claims' = claims + 1
               /\ attempts' = attempts \cup {[n |-> claims + 1, at |-> "claimed",
                                             ticket |-> row.ticket]}
      <4>1. /\ claims + 1 \in 1 .. claims' /\ 1 .. claims \subseteq 1 .. claims'
            /\ row.ticket \in DOMAIN tickets' /\ tickets' = tickets
        BY <1>1, <3>1 DEF Tick, BoundsOK, RowOK
      <4> QED
        BY <3>1, <4>1 DEF AttemptsOK, Place
    <3>2. CASE UNCHANGED <<claims, attempts>>
      BY <1>1, <3>2 DEF Tick, AttemptsOK
    <3> QED
      BY <1>1, <3>1, <3>2 DEF Tick, claimDue
  <2>4. BoundsOK'
    BY <1>1, OffPeakAssumption DEF Tick, claimDue, Due, BoundsOK, OffPeakAssumption
  <2> QED
    BY <2>1, <2>2, <2>3, <2>4
<1>2. CASE Dispatch
  <2>1. AttemptsOK'
    BY <1>2 DEF Dispatch, AttemptsOK, Place
  <2>2. RowOK'
    BY <1>2, UpdatesKeepRow, TicketsAdded DEF Dispatch
  <2> QED
    BY <1>2, <2>1, <2>2, TicketsAdded DEF Dispatch, TicketsOK, FlagsOK, BoundsOK
<1>3. CASE Settle
  <2>1. AttemptsOK' /\ FlagsOK'
    BY <1>3 DEF Settle, AttemptsOK, FlagsOK
  <2>2. Row(row')
    BY <1>3, UpdatesKeepRow DEF Settle, Terminal
  <2> QED
    BY <1>3, <2>1, <2>2, TicketsAdded DEF Settle, TicketsOK, BoundsOK
<1>4. CASE RetryAtPasses
  BY <1>4, TicketsAdded DEF RetryAtPasses, TicketsOK, FlagsOK, BoundsOK
<1>5. CASE Age
  <2>1. Row(row')
    BY <1>5 DEF Age, RowOK, Row
  <2>2. BoundsOK'
    BY <1>5, OffPeakAssumption DEF Age, BoundsOK, OffPeakAssumption
  <2> QED
    BY <1>5, <2>1, <2>2, TicketsAdded DEF Age, TicketsOK, FlagsOK
<1>6. CASE HostRefuses
  <2>1. AttemptsOK'
    BY <1>6 DEF HostRefuses, AttemptsOK, Place
  <2> QED
    BY <1>6, <2>1, TicketsAdded DEF HostRefuses, TicketsOK, FlagsOK, BoundsOK
<1>7. CASE HostPrompts
  <2>1. PICK a \in attempts :
          /\ attempts' = (attempts \ {a}) \cup {[a EXCEPT !.at = "ok"]}
          /\ turns' = turns \cup {[n |-> a.n, ticket |-> a.ticket, outcome |-> "running"]}
          /\ tickets' = [tickets EXCEPT ![a.ticket] = IF @ = "ready" THEN "active" ELSE @]
          /\ UNCHANGED <<row, up, clock, service, bounds>>
    BY <1>7 DEF HostPrompts
  <2>2. DOMAIN tickets' = DOMAIN tickets /\ TicketsOK'
    BY <2>1 DEF TicketsOK, TicketState
  <2>3. AttemptsOK' /\ TurnsOK'
    BY <2>1, <2>2 DEF AttemptsOK, TurnsOK, Place
  <2> QED
    BY <2>1, <2>2, <2>3, TicketsAdded DEF FlagsOK, BoundsOK
<1>8. CASE TurnEnds
  <2>1. TurnsOK'
    BY <1>8 DEF TurnEnds, TurnsOK
  <2> QED
    BY <1>8, <2>1, TicketsAdded DEF TurnEnds, TicketsOK, FlagsOK, BoundsOK
<1>9. CASE Finalize
  <2>1. FlagsOK' /\ UNCHANGED <<attempts, inquiry, claims, upsets, crashes>>
    BY <1>9 DEF Finalize, FlagsOK
  <2>2. Row(row')
    BY <1>9, UpdatesKeepRow DEF Finalize, Terminal, Row, RowOK
  <2>3. turns' \subseteq turns
    BY <1>9 DEF Finalize
  <2>4. CASE TakeTicket("turn")
    <3>1. TicketsOK' /\ TakenOK' /\ faults' \in 0 .. MaxFaults
          /\ DOMAIN tickets \subseteq DOMAIN tickets'
      BY <2>4, TakeTicketTyped
    <3>2. TurnsOK'
      BY <2>1, <2>3, <3>1 DEF TurnsOK
    <3> QED
      BY <2>1, <2>2, <3>1, <3>2, TicketsAdded DEF BoundsOK
  <2>5. CASE UNCHANGED <<server, taken, faults>>
    BY <2>1, <2>2, <2>3, <2>5, TicketsAdded DEF TicketsOK, TurnsOK, BoundsOK
  <2> QED
    BY <1>9, <2>4, <2>5 DEF Finalize
<1>10. CASE SyncRead
  <2>1. InquiryOK'
    BY <1>10 DEF SyncRead, InquiryOK, RowOK, Asker
  <2> QED
    BY <1>10, <2>1, TicketsAdded DEF SyncRead, TicketsOK, FlagsOK, BoundsOK
<1>11. CASE Continue
  <2>1. InquiryOK'
    BY <1>11 DEF Continue, InquiryOK, RowOK, Asker, Status
  <2>2. Row(row')
    BY <1>11 DEF Continue, RowOK, Row, Status
  <2> QED
    BY <1>11, <2>1, <2>2, TicketsAdded DEF Continue, TicketsOK, FlagsOK, BoundsOK
<1>12. CASE WriteTicket
  <2>1. TakenOK' /\ Row(row')
    BY <1>12 DEF WriteTicket, TakenOK, Row, RowOK
  <2> QED
    BY <1>12, <2>1, TicketsAdded DEF WriteTicket, TicketsOK, FlagsOK, BoundsOK
<1>13. CASE Pause
  <2>1. Row(row')
    BY <1>13 DEF Pause, RowOK, Row, Status
  <2> QED
    BY <1>13, <2>1, TicketsAdded, OffPeakAssumption
    DEF Pause, TicketsOK, FlagsOK, BoundsOK, OffPeakAssumption
<1>14. ASSUME NEW asker \in Asker, Answered(asker) PROVE TypeOK'
  <2>1. InquiryOK'
    BY <1>14 DEF Answered, InquiryOK, TicketsOK
  <2> QED
    BY <1>14, <2>1, TicketsAdded DEF Answered, TicketsOK, FlagsOK, BoundsOK
<1>15. ASSUME NEW asker \in Asker, Apply(asker) PROVE TypeOK'
  <2>1. FlagsOK' /\ UNCHANGED <<attempts, turns, claims, upsets, crashes>>
    BY <1>15 DEF Apply, FlagsOK
  <2>2. Row(row')
    BY <1>15 DEF Apply, Row, RowOK
  <2>3. inquiry' = [inquiry EXCEPT ![asker] = None]
    BY <1>15 DEF Apply
  <2>4. CASE TakeTicket(asker)
    <3>1. DOMAIN tickets \subseteq DOMAIN tickets' /\ TicketsOK' /\ TakenOK'
          /\ faults' \in 0 .. MaxFaults
      BY <2>4, TakeTicketTyped
    <3>2. InquiryOK'
      BY <2>3, <3>1 DEF InquiryOK
    <3> QED
      BY <2>1, <2>2, <3>1, <3>2, TicketsAdded DEF BoundsOK
  <2>5. CASE UNCHANGED <<server, taken, faults>>
    <3>1. InquiryOK'
      BY <2>3, <2>5 DEF InquiryOK
    <3> QED
      BY <2>1, <2>2, <2>5, <3>1, TicketsAdded DEF TicketsOK, BoundsOK
  <2> QED
    BY <1>15, <2>4, <2>5 DEF Apply
<1>16. CASE CancelRead
  BY <1>16, TicketsAdded DEF CancelRead, RowOK, TicketsOK, FlagsOK, BoundsOK
<1>17. CASE CancelMark
  <2>1. Row(row')
    BY <1>17, UpdatesKeepRow DEF CancelMark, Terminal
  <2> QED
    BY <1>17, <2>1, TicketsAdded DEF CancelMark, TicketsOK, FlagsOK, BoundsOK
<1>18. CASE CancelStop
  <2>1. TurnsOK'
    BY <1>18 DEF CancelStop, TurnsOK, Outcome
  <2>2. BoundsOK'
    BY <1>18, OffPeakAssumption DEF CancelStop, BoundsOK, OffPeakAssumption
  <2> QED
    BY <1>18, <2>1, <2>2, TicketsAdded DEF CancelStop, TicketsOK, FlagsOK
<1>19. CASE TicketMoves
  <2>1. DOMAIN tickets' = DOMAIN tickets /\ TicketsOK'
    BY <1>19 DEF TicketMoves, TicketsOK, TicketState
  <2> QED
    BY <1>19, <2>1, TicketsAdded DEF TicketMoves, FlagsOK, BoundsOK
<1>20. CASE HostDies
  <2>1. AttemptsOK' /\ TurnsOK' /\ InquiryOK' /\ TakenOK' /\ FlagsOK'
    BY <1>20 DEF HostDies, HostMemoryLost, AttemptsOK, TurnsOK, InquiryOK, TakenOK, FlagsOK
  <2>2. BoundsOK'
    BY <1>20, OffPeakAssumption DEF HostDies, BoundsOK, OffPeakAssumption
  <2> QED
    BY <1>20, <2>1, <2>2, TicketsAdded DEF HostDies, TicketsOK
<1>21. CASE AppExits
  <2>1. AttemptsOK' /\ TurnsOK' /\ InquiryOK' /\ TakenOK' /\ FlagsOK'
    BY <1>21 DEF AppExits, HostMemoryLost, AttemptsOK, TurnsOK, InquiryOK, TakenOK, FlagsOK
  <2>2. BoundsOK'
    BY <1>21, OffPeakAssumption DEF AppExits, BoundsOK, OffPeakAssumption
  <2>3. RowOK'
    BY <1>21, UpdatesKeepRow, TicketsAdded DEF AppExits
  <2> QED
    BY <1>21, <2>1, <2>2, <2>3 DEF AppExits, TicketsOK
<1>22. CASE AppStarts
  <2>1. Row(row')
    BY <1>22, UpdatesKeepRow DEF AppStarts
  <2> QED
    BY <1>22, <2>1, TicketsAdded DEF AppStarts, TicketsOK, FlagsOK, BoundsOK
<1>23. CASE UNCHANGED vars
  BY <1>23, TicketsAdded DEF vars, TicketsOK, FlagsOK, BoundsOK
<1> QED
  BY <1>1, <1>2, <1>3, <1>4, <1>5, <1>6, <1>7, <1>8, <1>9, <1>10, <1>11, <1>12, <1>13,
     <1>14, <1>15, <1>16, <1>17, <1>18, <1>19, <1>20, <1>21, <1>22, <1>23 DEF Next

(* Whatever the claims, answers, tickets, pauses, restarts and faults, the  *)
(* rows, claims and turns have their types, and only a task that waits to   *)
(* be dispatched is claimed (off_peak_tasks.claim_running).                 *)
THEOREM TypeCorrect == Spec => []TypeOK
<1>1. Init => TypeOK
  BY InitInv DEF IInv
<1>2. TypeOK /\ [Next]_vars => TypeOK'
  BY TypeStep
<1> QED
  BY <1>1, <1>2, PTL DEF Spec
-----------------------------------------------------------------------------
(* One execution at a time.                                                *)

\* The status a final write leaves is final.
LEMMA FinalStays ==
  ASSUME NEW end \in Terminal, RowOK
  PROVE  markTerminal(end).status \in Terminal
  BY DEF markTerminal, RowOK, Status

\* Every step keeps what the order of claim, answer and write leaves possible,
\* unless it takes the claim from a dispatch on its way.
LEMMA OrderStep ==
  ASSUME TypeOK, Order, Gone, [Next]_vars
  PROVE  overtaken' \/ Order'
<1> USE DEF Order, TypeOK, server, service, clock, bounds
<1>1. CASE Tick
  <2>1. CASE Due(Reclaimed)
    <3>1. attempts = {} /\ turns = {}
      BY <2>1 DEF Due, Reclaimed, Claimed, Served, Terminal
    <3>2. /\ attempts' = {[n |-> claims + 1, at |-> "claimed", ticket |-> row.ticket]}
          /\ turns' = {} /\ up' /\ row'.claim = "fresh" /\ row'.status = "queued"
      BY <1>1, <2>1, <3>1 DEF Tick, claimDue, Due, RowOK
    <3> QED
      BY <3>2 DEF Alone, Claimed, Served
  <2>2. CASE ~Due(Reclaimed)
    <3>1. row.claim = "stale" /\ UNCHANGED <<attempts, turns, up>> /\ row'.status = row.status
      BY <1>1, <2>2 DEF Tick, claimDue, Reclaimed, RowOK
    <3>2. attempts = {}
      BY <3>1 DEF Claimed, RowOK, Terminal
    <3> QED
      BY <3>1, <3>2 DEF Alone, Claimed, Served
  <2> QED
    BY <2>1, <2>2
<1>2. CASE Dispatch
  <2>1. PICK a \in attempts :
          /\ a.at = "claimed"
          /\ \/ row' = releaseClaim /\ attempts' = attempts \ {a}
             \/ /\ attempts' = (attempts \ {a}) \cup {[a EXCEPT !.at = "sent"]}
                /\ UNCHANGED row
          /\ UNCHANGED <<turns, up>>
    BY <1>2 DEF Dispatch
  <2>2. attempts = {a} /\ turns = {}
    BY <2>1 DEF Alone
  <2>3. Alone'
    BY <2>1, <2>2 DEF Alone
  <2> QED
    BY <2>1, <2>2, <2>3 DEF Claimed, Served
<1>3. CASE Settle
  <2>1. PICK a \in attempts :
          /\ attempts' = attempts \ {a}
          /\ row' = CASE a.at = "ok" /\ row.status = "queued" -> markRunning
                      [] a.at = "permanent" /\ row.status \notin Terminal
                           -> markTerminal("failed")
                      [] OTHER -> releaseClaim
          /\ UNCHANGED <<turns, up>>
    BY <1>3 DEF Settle
  <2>2. attempts' = {}
    BY <2>1 DEF Alone
  <2>3. CASE a.at = "ok" /\ row.status = "queued"
    <3>1. row'.status = "running"
      BY <2>1, <2>3 DEF markRunning, RowOK
    <3> QED
      BY <2>1, <2>2, <3>1 DEF Alone, Claimed, Served
  <2>4. CASE a.at = "ok" /\ row.status # "queued"
    <3>1. row'.status = row.status
      BY <2>1, <2>4 DEF releaseClaim, RowOK
    <3>2. row.status \in Terminal
      BY <2>4 DEF Claimed
    <3> QED
      BY <2>1, <2>2, <3>1, <3>2 DEF Alone, Claimed, Served
  <2>5. CASE a.at # "ok"
    <3>1. turns = {}
      BY <2>5 DEF Alone
    <3> QED
      BY <2>1, <2>2, <3>1 DEF Alone, Claimed, Served
  <2> QED
    BY <2>3, <2>4, <2>5
<1>4. CASE RetryAtPasses \/ SyncRead \/ CancelRead \/ TicketMoves \/ UNCHANGED vars
  BY <1>4 DEF RetryAtPasses, SyncRead, CancelRead, TicketMoves, vars,
     Alone, Claimed, Served
<1>5. CASE Age
  <2>1. CASE attempts # {}
    BY <1>5, <2>1 DEF Age
  <2>2. CASE attempts = {}
    BY <1>5, <2>2 DEF Age, RowOK, Alone, Claimed, Served
  <2> QED
    BY <2>1, <2>2
<1>6. CASE HostRefuses
  <2>1. PICK a \in attempts, kind \in {"transient", "permanent"} :
          /\ a.at = "sent"
          /\ attempts' = (attempts \ {a}) \cup {[a EXCEPT !.at = kind]}
          /\ UNCHANGED <<row, turns, up>>
    BY <1>6 DEF HostRefuses
  <2>2. attempts = {a} /\ turns = {}
    BY <2>1 DEF Alone
  <2>3. Alone'
    BY <2>1, <2>2 DEF Alone
  <2> QED
    BY <2>1, <2>2, <2>3 DEF Claimed, Served
<1>7. CASE HostPrompts
  <2>1. PICK a \in attempts :
          /\ a.at = "sent"
          /\ attempts' = (attempts \ {a}) \cup {[a EXCEPT !.at = "ok"]}
          /\ turns' = turns \cup {[n |-> a.n, ticket |-> a.ticket, outcome |-> "running"]}
          /\ UNCHANGED <<row, up>>
    BY <1>7 DEF HostPrompts
  <2>2. attempts = {a} /\ turns = {}
    BY <2>1 DEF Alone
  <2>3. [a EXCEPT !.at = "ok"].at = "ok"
    BY <2>1 DEF AttemptsOK
  <2>4. Alone'
    BY <2>1, <2>2, <2>3 DEF Alone
  <2> QED
    BY <2>1, <2>2, <2>4 DEF Claimed, Served
<1>8. CASE TurnEnds
  <2>1. PICK t \in turns, outcome \in Outcome :
          /\ turns' = (turns \ {t}) \cup {[t EXCEPT !.outcome = outcome]}
          /\ UNCHANGED <<row, attempts, up>>
    BY <1>8 DEF TurnEnds
  <2>2. turns = {t}
    BY <2>1 DEF Alone
  <2> QED
    BY <2>1, <2>2 DEF Alone, Claimed, Served
<1>9. CASE Finalize
  <2>1. turns' = {} /\ UNCHANGED <<attempts, up>>
    BY <1>9 DEF Finalize, Alone
  <2>2. Claimed'
    <3>1. CASE row.status = "running" /\ row' = requeueForContinuation
      BY <2>1, <3>1 DEF Claimed, Terminal
    <3>2. CASE UNCHANGED row
      BY <2>1, <3>2 DEF Claimed
    <3>3. CASE \E end \in Terminal : row' = markTerminal(end)
      BY <2>1, <3>3, FinalStays DEF Claimed
    <3> QED
      BY <1>9, <3>1, <3>2, <3>3 DEF Finalize, Terminal
  <2> QED
    BY <2>1, <2>2 DEF Alone, Served
<1>10. CASE Continue
  BY <1>10 DEF Continue, Terminal, Alone, Claimed, Served
<1>11. CASE WriteTicket
  <2>1. row'.status = row.status /\ row'.claim = row.claim /\ UNCHANGED <<attempts, turns, up>>
    BY <1>11 DEF WriteTicket, RowOK
  <2> QED
    BY <2>1 DEF Alone, Claimed, Served
<1>12. CASE Pause
  <2>1. attempts = {} /\ turns = {}
    BY <1>12 DEF Pause, Claimed, Served, Terminal
  <2> QED
    BY <1>12, <2>1 DEF Pause, Alone, Claimed, Served
<1>13. ASSUME NEW asker \in Asker, Answered(asker) \/ Apply(asker)
       PROVE  Order'
  <2>1. row'.status = row.status /\ row'.claim = row.claim /\ UNCHANGED <<attempts, turns, up>>
    BY <1>13 DEF Answered, Apply, RowOK
  <2> QED
    BY <2>1 DEF Alone, Claimed, Served
<1>14. CASE CancelMark
  <2>1. row'.status \in Terminal /\ UNCHANGED <<attempts, turns, up>>
    BY <1>14, FinalStays DEF CancelMark, Terminal
  <2> QED
    BY <2>1 DEF Alone, Claimed, Served
<1>15. CASE CancelStop
  <2>1. UNCHANGED <<row, attempts, up>>
    BY <1>15 DEF CancelStop
  <2>2. /\ \A t, u \in turns' : t = u
        /\ turns = {} => turns' = {}
        /\ turns' = {} \/ turns # {}
    BY <1>15 DEF CancelStop, Alone
  <2> QED
    BY <2>1, <2>2 DEF Alone, Claimed, Served
<1>16. CASE HostDies
  BY <1>16 DEF HostDies, HostMemoryLost, Alone, Claimed, Served
<1>17. CASE AppExits
  BY <1>17 DEF AppExits, HostMemoryLost, Alone, Claimed, Served
<1>18. CASE AppStarts
  BY <1>18 DEF AppStarts, Gone, Alone, Claimed, Served
<1> QED
  BY <1>1, <1>2, <1>3, <1>4, <1>5, <1>6, <1>7, <1>8, <1>9, <1>10, <1>11, <1>12, <1>13,
     <1>14, <1>15, <1>16, <1>17, <1>18 DEF Next

\* With the app closed nothing is in flight, whatever was before the exit.
LEMMA GoneStep ==
  ASSUME TypeOK, Gone, [Next]_vars
  PROVE  Gone'
<1> USE DEF Gone, clock
<1>1. CASE Tick \/ SyncRead \/ CancelRead \/ Continue \/ Pause
  BY <1>1 DEF Tick, SyncRead, CancelRead, Continue, Pause
<1>2. CASE Dispatch \/ Settle \/ HostRefuses \/ HostPrompts \/ TurnEnds
  <2>1. up /\ up' = up
    BY <1>2 DEF Dispatch, Settle, HostRefuses, HostPrompts, TurnEnds
  <2> QED
    BY <2>1
<1>3. CASE Finalize
  <2>1. up /\ up' = up
    BY <1>3 DEF Finalize
  <2> QED
    BY <2>1
<1>4. CASE \/ RetryAtPasses \/ Age \/ WriteTicket \/ CancelMark \/ TicketMoves
           \/ UNCHANGED vars
  BY <1>4 DEF RetryAtPasses, Age, WriteTicket, CancelMark, TicketMoves, vars
<1>5. ASSUME NEW asker \in Asker, Answered(asker) \/ Apply(asker) PROVE Gone'
  BY <1>5 DEF Answered, Apply
<1>6. CASE CancelStop
  <2>1. turns = {} => turns' = {}
    BY <1>6 DEF CancelStop
  <2> QED
    BY <1>6, <2>1 DEF CancelStop
<1>7. CASE HostDies \/ AppExits \/ AppStarts
  BY <1>7 DEF HostDies, AppExits, AppStarts, HostMemoryLost, TypeOK, FlagsOK
<1> QED
  BY <1>1, <1>2, <1>3, <1>4, <1>5, <1>6, <1>7 DEF Next

\* Only an exit of the app ends the overtaking of a claim, and nothing is in
\* flight then.
LEMMA OvertakenStep ==
  ASSUME overtaken, [Next]_vars
  PROVE  overtaken' \/ Order'
<1> USE DEF clock
<1>1. CASE AppExits
  BY <1>1 DEF AppExits, HostMemoryLost, Order, Alone, Claimed, Served
<1>2. CASE Tick \/ Dispatch \/ Settle \/ RetryAtPasses \/ Age
  BY <1>2 DEF Tick, Dispatch, Settle, RetryAtPasses, Age
<1>3. CASE HostRefuses \/ HostPrompts \/ TurnEnds \/ Finalize \/ SyncRead \/ Continue
  BY <1>3 DEF HostRefuses, HostPrompts, TurnEnds, Finalize, SyncRead, Continue
<1>4. CASE WriteTicket \/ Pause \/ CancelRead \/ CancelMark \/ CancelStop \/ TicketMoves
  BY <1>4 DEF WriteTicket, Pause, CancelRead, CancelMark, CancelStop, TicketMoves
<1>5. ASSUME NEW asker \in Asker, Answered(asker) \/ Apply(asker)
      PROVE  overtaken' \/ Order'
  BY <1>5 DEF Answered, Apply
<1>6. CASE HostDies \/ AppStarts \/ UNCHANGED vars
  BY <1>6 DEF HostDies, AppStarts, vars
<1> QED
  BY <1>1, <1>2, <1>3, <1>4, <1>5, <1>6 DEF Next

(* A task is executed once at a time, and one the user has paused neither   *)
(* runs nor is about to, although a claim carries no owner and its answer,  *)
(* its turn and its row are three processes'; excepted is, until the app    *)
(* exits, a task whose claim fell back by age under its dispatch            *)
(* (OneExecution).                                                          *)
THEOREM NeverTwice == Spec => []OneExecution
<1>1. IInv /\ [Next]_vars => IInv'
  BY TypeStep, OrderStep, GoneStep, OvertakenStep DEF IInv
<1> QED
  BY <1>1, InitInv, OneFollows, PTL DEF Spec
=============================================================================
