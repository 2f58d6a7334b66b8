---------------------------- MODULE SchedulerTick ----------------------------
(***************************************************************************)
(* SchedulerTickService.tick (src/src/services/schedulerTickService.js):   *)
(* one transaction that locks a batch of due instances, inserts a run for  *)
(* each and advances it, with a savepoint per instance.  Cloud Scheduler   *)
(* may deliver a tick while an earlier one is still at work.               *)
(***************************************************************************)
EXTENDS InstanceStore

CONSTANTS Ticks,      \* concurrent tick requests
          BatchSize   \* batchSize, the LIMIT of claimDueInstances

ASSUME SchedulerTickAssumption == BatchSize \in Nat

VARIABLE tick   \* per request: rows locked, rows to do, rows advanced

tickVars == <<tick>>

TickTypeOK ==
  tick \in [Ticks -> [locked : SUBSET Instances, todo : SUBSET Instances,
                      done : SUBSET Instances]]

NoTick == [locked |-> {}, todo |-> {}, done |-> {}]

TickInit == tick = [p \in Ticks |-> NoTick]

TickLocked(i) == \E p \in Ticks : i \in tick[p].locked

\* Plausible bug: SELECT without FOR UPDATE SKIP LOCKED.
DueUnlocked(now) == {i \in Instances : inst[i].state = "ACTIVE" /\ inst[i].next <= now}

\* Plausible bug: next_fire_at < now.
DueStrictly(now) ==
  {i \in Instances : inst[i].state = "ACTIVE" /\ inst[i].next < now /\ ~TickLocked(i)}

\* WHERE enabled AND state = 'ACTIVE' AND next_fire_at <= now SKIP LOCKED.
Due(now) ==
  {i \in Instances : inst[i].state = "ACTIVE" /\ inst[i].next <= now /\ ~TickLocked(i)}

\* ORDER BY next_fire_at LIMIT batchSize.
IsBatch(S, due) ==
  /\ S \subseteq due
  /\ Cardinality(S) <= BatchSize
  /\ Cardinality(S) < BatchSize => S = due
  /\ \A i \in S, j \in due \ S : inst[i].next <= inst[j].next

\* BEGIN; SELECT ... FOR UPDATE.  The tick may have read its clock some time
\* before, while it waited for a connection.
TickBegin(p) ==
  /\ tick[p] = NoTick
  /\ \E now \in 0..clock : \E S \in SUBSET Due(now) :
       /\ S # {} /\ IsBatch(S, Due(now))
       /\ tick' = [tick EXCEPT ![p] = [locked |-> S, todo |-> S, done |-> {}]]
  /\ UNCHANGED instanceVars

\* One instance: INSERT and UPDATE, to be seen by others at COMMIT.
TickItem(p, i) ==
  /\ i \in tick[p].todo
  /\ tick' = [tick EXCEPT ![p].todo = @ \ {i}, ![p].done = @ \cup {i}]
  /\ UNCHANGED instanceVars

\* The definition lookup or a statement throws: ROLLBACK TO SAVEPOINT.  The row
\* stays locked.
TickItemError(p, i) ==
  /\ i \in tick[p].todo
  /\ tick' = [tick EXCEPT ![p].todo = @ \ {i}]
  /\ UNCHANGED instanceVars

\* COMMIT: the inserts and updates take effect and the locks go.
TickCommit(p) ==
  /\ tick[p].locked # {}
  /\ tick[p].todo = {}
  /\ fired' = [i \in Instances |->
                 IF i \in tick[p].done
                 THEN [fired[i] EXCEPT ![inst[i].next] = InsertRun(@)]
                 ELSE fired[i]]
  /\ inst' = [i \in Instances |->
                IF i \in tick[p].done THEN AdvancedRow(inst[i]) ELSE inst[i]]
  /\ tick' = [tick EXCEPT ![p] = NoTick]
  /\ UNCHANGED clock

\* ROLLBACK, or the scheduler process dies.
TickAbort(p) ==
  /\ tick[p].locked # {}
  /\ tick' = [tick EXCEPT ![p] = NoTick]
  /\ UNCHANGED instanceVars

TickNext ==
  \E p \in Ticks :
    \/ TickBegin(p)
    \/ \E i \in Instances : TickItem(p, i) \/ TickItemError(p, i)
    \/ TickCommit(p)
    \/ TickAbort(p)
=============================================================================
