--------------------------- MODULE MixerRefinement ---------------------------
(* The mixer, with the endpoint's threads, implements SyntheticOutput: its *)
(* state is mapped to the abstract one, and every step of MouseMixer to a  *)
(* step of the abstract module or to a stutter.                            *)
EXTENDS MouseMixer

(* An item without its identity, its guard and its place between physical  *)
(* reports.                                                                *)
AbstractEntry(item) ==
  [kind |-> item.kind, key |-> item.key, button |-> item.button,
   persistent |-> item.persistent, scheduled |-> item.scheduled,
   latest |-> item.latest, left |-> item.x, committed |-> item.committed]

AbstractEntries(items) == [j \in DOMAIN items |-> AbstractEntry(items[j])]
AbstractQueue == AbstractEntries(synthetic)

AbstractReport ==
  [generation |-> io.generation, kind |-> io.kind, key |-> io.key,
   button |-> io.button,
   masks |-> [persistent |-> io.persistent, scheduled |-> io.scheduled],
   motion |-> io.x, carries |-> io.physical /\ io.match,
   buttons |-> IF io.match THEN io.physicalButtons ELSE {},
   blocked |-> io.blocked,
   shown |-> IF io.physical /\ ~io.match THEN {} ELSE io.shown]

AbstractWire == IF writer = "writing" THEN <<AbstractReport>> ELSE <<>>

AbstractEvent(event) ==
  [key |-> event.key, generation |-> event.generation, kind |-> event.kind,
   button |-> event.button, blocked |-> event.blocked, success |-> event.success,
   final |-> IF event.kind = "NONE" THEN {} ELSE event.final,
   motion |-> event.x, finished |-> event.finished]

AbstractEvents(es) == [j \in DOMAIN es |-> AbstractEvent(es[j])]

AbstractTold == AbstractEvents(pendingEvent)
AbstractLog == AbstractEvents(events)

AppliedMasks == [persistent |-> persistent, scheduled |-> scheduled]

(* A report read under an earlier generation has not been taken yet.       *)
Waiting == {fifo[j] : j \in DOMAIN fifo} \cup {stamped[j] : j \in DOMAIN stamped}
StaleWaiting == \E r \in Waiting : r.generation < nextGeneration

Held == inflight # NoItem

Output == INSTANCE SyntheticOutput WITH
  PhysicalButtons <- Buttons, NullKey <- 0, QueueLimit <- MaxSynthetic, EventLimit <- MaxEvents,
  ResetLimit <- MaxGenerations,
  generation <- nextGeneration, ready <- Ready, stale <- StaleWaiting,
  queue <- AbstractQueue, held <- Held, wire <- AbstractWire,
  fresh <- templateKnown, applied <- AppliedMasks,
  physical <- submittedPhysical, host <- hostButtons,
  told <- AbstractTold, events <- AbstractLog

(* Every behaviour of the mixer and its threads is one the abstract output *)
(* allows: what is accepted, dropped, replaced, given up, written,         *)
(* credited and told of, and what the host sees, whatever the interleaving.*)
ImplementsOutput ==
  Output!OutputInit
  /\ [][Output!CallerStep(Commands) \/ Output!OutputStep \/ Output!Seed]_(Output!outputVars)
=============================================================================
