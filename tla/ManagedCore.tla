---------------------------- MODULE ManagedCore ----------------------------
(***************************************************************************)
(* The managed pool of internal/poolcore/managed_core.go: one sub-pool per *)
(* resolved address, an address set that follows the resolver, and the     *)
(* three ways of draining the sub-pool of a removed address.               *)
(*                                                                         *)
(* Every critical section of mp.Mu is one action; what the code does       *)
(* between two of them (the pick, the poll of a watcher, the Close of a    *)
(* sub-pool that was taken out of the registry) is interleaved.            *)
(***************************************************************************)
EXTENDS Naturals, FiniteSets

CONSTANTS
  Callers,     \* goroutines calling Acquire or Warmup
  Addrs,       \* addresses, by Address.String()
  Subs,        \* identities of *CoreSubPool
  NoSub,       \* no entry in SubPools, or the nil sub-pool
  NoAddr,      \* no address picked
  DrainMode,   \* "graceful", "hard" or "lazy"
  MaxUpdates   \* bound: address sets the resolver delivers

ASSUME CoreAssumption ==
  /\ NoSub \notin Subs
  /\ NoAddr \notin Addrs
  /\ DrainMode \in {"graceful", "hard", "lazy"}
  /\ MaxUpdates \in Nat

VARIABLES
  addrs,      \* mp.addrs
  registry,   \* mp.SubPools
  subAddr,    \* CoreSubPool.addr, NoAddr for an identity not yet created
  draining,   \* the sub-pools whose draining flag is set
  subClosed,  \* sub-pools that have closed: they grant no slot any more
  toClose,    \* sub-pools taken out of the registry whose p.Close is still to be
              \* called, or to be handled by the sub-pool's actor
  toDrain,    \* Run, in applySet: sub-pools beginDrain is still to be called for
  watching,   \* per sub-pool: watchDrain goroutines that poll
  sawIdle,    \* per sub-pool: watchDrain goroutines that read InFlightStreams = 0
  coreState,  \* "open", "signalled" (mp.closed closed), "closed" (maps cleared)
  updates,    \* address sets applied so far
  pc,         \* per caller: where it is
  tried,      \* per caller: Acquire's tried set
  picked,     \* per caller: the address it works on
  sub,        \* per caller: the sub-pool it acquires from or holds a slot of
  todo        \* per caller: addresses Warmup still has to visit

vars == <<addrs, registry, subAddr, draining, subClosed, toClose, toDrain, watching,
          sawIdle, coreState, updates, pc, tried, picked, sub, todo>>

registryVars == <<addrs, registry, subAddr, draining>>
drainVars    == <<subClosed, toClose, toDrain, watching, sawIdle>>
callerVars   == <<pc, tried, picked, sub, todo>>

Stages == {"idle", "loop", "lookup", "create", "acquire", "holding"}

Registered(s) == subAddr[s] # NoAddr /\ registry[subAddr[s]] = s

\* Stats().InFlightStreams of a sub-pool; a closed one reports zero.
InFlightStreams(s) ==
  IF s \in subClosed THEN 0
  ELSE Cardinality({k \in Callers : pc[k] = "holding" /\ sub[k] = s})

Init ==
  /\ addrs \in SUBSET Addrs
  /\ registry = [a \in Addrs |-> NoSub]
  /\ subAddr = [s \in Subs |-> NoAddr]
  /\ draining = {} /\ subClosed = {} /\ toClose = {} /\ toDrain = {}
  /\ watching = [s \in Subs |-> 0]
  /\ sawIdle = [s \in Subs |-> 0]
  /\ coreState = "open"
  /\ updates = 0
  /\ pc = [k \in Callers |-> "idle"]
  /\ tried = [k \in Callers |-> {}]
  /\ picked = [k \in Callers |-> NoAddr]
  /\ sub = [k \in Callers |-> NoSub]
  /\ todo = [k \in Callers |-> {}]

-----------------------------------------------------------------------------
(* Acquire and Warmup.                                                     *)

\* SnapshotActive
SnapshotActive ==
  {a \in addrs : registry[a] = NoSub \/ registry[a] \notin draining}

\* Acquire enters its loop with an empty tried set.
Acquire(k) ==
  /\ pc[k] = "idle"
  /\ pc' = [pc EXCEPT ![k] = "loop"]
  /\ UNCHANGED <<registryVars, drainVars, coreState, updates, tried, picked, sub, todo>>

\* Warmup copies mp.addrs and visits each address with GetOrCreateSubPool.
Warmup(k) ==
  /\ pc[k] = "idle"
  /\ addrs # {}
  /\ pc' = [pc EXCEPT ![k] = "loop"]
  /\ todo' = [todo EXCEPT ![k] = addrs]
  /\ UNCHANGED <<registryVars, drainVars, coreState, updates, tried, picked, sub>>

\* Acquire or Warmup returns.
Return(k) ==
  /\ pc' = [pc EXCEPT ![k] = "idle"]
  /\ tried' = [tried EXCEPT ![k] = {}]
  /\ picked' = [picked EXCEPT ![k] = NoAddr]
  /\ sub' = [sub EXCEPT ![k] = NoSub]
  /\ todo' = [todo EXCEPT ![k] = {}]

\* The next round of Acquire's loop: snapshot, drop what was tried, let the
\* selector pick any address; or the next address of Warmup.
Pick(k) ==
  LET set == IF todo[k] # {} THEN todo[k] ELSE SnapshotActive \ tried[k]
  IN /\ pc[k] = "loop"
     /\ \/ set = {} /\ Return(k)
        \/ \E a \in set :
             /\ picked' = [picked EXCEPT ![k] = a]
             /\ pc' = [pc EXCEPT ![k] = "lookup"]
             /\ UNCHANGED <<tried, sub, todo>>
     /\ UNCHANGED <<registryVars, drainVars, coreState, updates>>

\* The tried set after the picked address was given up.
TriedAfter(k) == tried[k] \cup {picked[k]}

\* GetOrCreateSubPool returned nil, or the acquire on the sub-pool failed to
\* dial: Acquire marks the address tried, Warmup leaves it out.
NextAddress(k) ==
  LET a == picked[k]
  IN /\ IF todo[k] = {}
        THEN /\ tried' = [tried EXCEPT ![k] = TriedAfter(k)]
             /\ pc' = [pc EXCEPT ![k] = "loop"]
             /\ UNCHANGED todo
        ELSE /\ todo' = [todo EXCEPT ![k] = @ \ {a}]
             /\ pc' = [pc EXCEPT ![k] = IF todo[k] = {a} THEN "idle" ELSE "loop"]
             /\ UNCHANGED tried
     /\ picked' = [picked EXCEPT ![k] = NoAddr]
     /\ sub' = [sub EXCEPT ![k] = NoSub]

\* GetOrCreateSubPool returned s: Acquire goes on to s.p.Acquire, Warmup to the
\* next address.
Got(k, s) ==
  \/ /\ todo[k] = {}
     /\ sub' = [sub EXCEPT ![k] = s]
     /\ pc' = [pc EXCEPT ![k] = "acquire"]
     /\ UNCHANGED <<tried, picked, todo>>
  \/ todo[k] # {} /\ NextAddress(k)

\* GetOrCreateSubPool, the section under the read lock.
GetSubPool(k) ==
  LET s == registry[picked[k]]
  IN /\ pc[k] = "lookup"
     /\ \/ s # NoSub /\ s \notin draining /\ Got(k, s)
        \/ s \in draining /\ NextAddress(k)
        \/ /\ s = NoSub
           /\ pc' = [pc EXCEPT ![k] = "create"]
           /\ UNCHANGED <<tried, picked, sub, todo>>
     /\ UNCHANGED <<registryVars, drainVars, coreState, updates>>

\* The closed check of GetOrCreateSubPool, under the write lock.
MayCreate == coreState = "open"

\* GetOrCreateSubPool, the section under the write lock.
CreateSubPool(k) ==
  LET a == picked[k]
      s == registry[a]
  IN /\ pc[k] = "create"
     /\ \/ /\ ~MayCreate \/ s \in draining
           /\ NextAddress(k)
           /\ UNCHANGED registryVars
        \/ /\ MayCreate /\ s # NoSub /\ s \notin draining
           /\ Got(k, s)
           /\ UNCHANGED registryVars
        \/ /\ MayCreate /\ s = NoSub
           /\ \E n \in Subs :
                /\ subAddr[n] = NoAddr
                /\ subAddr' = [subAddr EXCEPT ![n] = a]
                /\ registry' = [registry EXCEPT ![a] = n]
                /\ Got(k, n)
           /\ UNCHANGED <<addrs, draining>>
     /\ UNCHANGED <<drainVars, coreState, updates>>

\* s.p.Acquire hands out a slot.
AcquireOk(k) ==
  /\ pc[k] = "acquire"
  /\ sub[k] \notin subClosed
  /\ pc' = [pc EXCEPT ![k] = "holding"]
  /\ UNCHANGED <<registryVars, drainVars, coreState, updates, tried, picked, sub, todo>>

\* s.p.Acquire fails with an error of IsDialOnlyErr (the pool being closed is
\* one): the next address is tried.
AcquireDialErr(k) ==
  /\ pc[k] = "acquire"
  /\ NextAddress(k)
  /\ UNCHANGED <<registryVars, drainVars, coreState, updates>>

\* s.p.Acquire fails otherwise (the context): Acquire returns the error.
AcquireFailed(k) ==
  /\ pc[k] = "acquire"
  /\ Return(k)
  /\ UNCHANGED <<registryVars, drainVars, coreState, updates>>

\* The release handle that came with the connection is called.
Release(k) ==
  /\ pc[k] = "holding"
  /\ Return(k)
  /\ UNCHANGED <<registryVars, drainVars, coreState, updates>>

-----------------------------------------------------------------------------
(* The resolver's updates and draining.                                    *)

\* The sub-pools of the addresses that next no longer has.
Removed(next) == {registry[a] : a \in {b \in addrs \ next : registry[b] # NoSub}}

\* applySet: revives the addresses of next, marks those that left the set.
DrainingAfter(next) ==
  (draining \ {registry[a] : a \in next}) \cup Removed(next)

\* applySet, its critical section; called by Run and by runTicker.
ApplySet(next) ==
  /\ updates < MaxUpdates
  /\ toDrain = {}
  /\ updates' = updates + 1
  /\ draining' = DrainingAfter(next)
  /\ toDrain' = DrainingAfter(next) \ draining
  /\ addrs' = next
  /\ UNCHANGED <<registry, subAddr, subClosed, toClose, watching, sawIdle, coreState,
                 callerVars>>

\* The delete of dropSubPool and dropIfDraining, by identity.
Unregister(s) == [registry EXCEPT ![subAddr[s]] = IF @ = s THEN NoSub ELSE @]

\* Faulty variant: no watcher for a sub-pool that is idle already.
WatchersIfBusy(s) ==
  IF DrainMode = "graceful" /\ InFlightStreams(s) > 0
  THEN [watching EXCEPT ![s] = @ + 1] ELSE watching

\* DrainGraceful starts a watchDrain goroutine.
Watchers(s) ==
  IF DrainMode = "graceful" THEN [watching EXCEPT ![s] = @ + 1] ELSE watching

\* beginDrain for one sub-pool; dropSubPool under DrainHard, watchDrain under
\* DrainGraceful, nothing under DrainLazy.
BeginDrain(s) ==
  /\ s \in toDrain
  /\ toDrain' = toDrain \ {s}
  /\ IF DrainMode = "hard"
     THEN /\ registry' = Unregister(s)
          /\ toClose' = toClose \cup {s}
     ELSE UNCHANGED <<registry, toClose>>
  /\ watching' = Watchers(s)
  /\ UNCHANGED <<addrs, subAddr, draining, subClosed, sawIdle, coreState, updates,
                 callerVars>>

\* watchDrain: a poll that reads InFlightStreams = 0 (any other changes nothing).
WatchPoll(s) ==
  /\ watching[s] > 0
  /\ InFlightStreams(s) = 0
  /\ watching' = [watching EXCEPT ![s] = @ - 1]
  /\ sawIdle' = [sawIdle EXCEPT ![s] = @ + 1]
  /\ UNCHANGED <<registryVars, subClosed, toClose, toDrain, coreState, updates, callerVars>>

\* watchDrain returns when mp.closed is closed.
WatchStop(s) ==
  /\ watching[s] > 0
  /\ coreState # "open"
  /\ watching' = [watching EXCEPT ![s] = @ - 1]
  /\ UNCHANGED <<registryVars, subClosed, toClose, toDrain, sawIdle, coreState, updates,
                 callerVars>>

\* Faulty variant: the watcher trusts the flag it saw when it was started.
StillRegistered(s) == Registered(s)

\* The check of dropIfDraining.
StillDraining(s) == Registered(s) /\ s \in draining

\* dropIfDraining, its critical section.
DropIfDraining(s) ==
  /\ sawIdle[s] > 0
  /\ sawIdle' = [sawIdle EXCEPT ![s] = @ - 1]
  /\ IF StillDraining(s)
     THEN /\ registry' = Unregister(s)
          /\ toClose' = toClose \cup {s}
     ELSE UNCHANGED <<registry, toClose>>
  /\ UNCHANGED <<addrs, subAddr, draining, subClosed, toDrain, watching, coreState,
                 updates, callerVars>>

\* The sub-pool closes: the p.Close that follows the critical section of
\* dropSubPool and dropIfDraining, or the one inside Close, takes effect.
CloseSubPool(s) ==
  /\ s \in toClose
  /\ toClose' = toClose \ {s}
  /\ subClosed' = subClosed \cup {s}
  /\ UNCHANGED <<registryVars, toDrain, watching, sawIdle, coreState, updates, callerVars>>

\* Close: mp.closed is closed first, the maps are cleared under the lock.
CloseSignal ==
  /\ coreState = "open"
  /\ coreState' = "signalled"
  /\ UNCHANGED <<registryVars, drainVars, updates, callerVars>>

\* What Close closes: every registered sub-pool.
ClosedByClose == {s \in Subs : Registered(s)}

CloseAll ==
  /\ coreState = "signalled"
  /\ coreState' = "closed"
  /\ toClose' = toClose \cup ClosedByClose
  /\ registry' = [a \in Addrs |-> NoSub]
  /\ addrs' = {}
  /\ UNCHANGED <<subAddr, draining, subClosed, toDrain, watching, sawIdle, updates,
                 callerVars>>

-----------------------------------------------------------------------------
CallerStep(k) ==
  \/ Pick(k) \/ GetSubPool(k) \/ CreateSubPool(k)
  \/ AcquireOk(k) \/ AcquireDialErr(k) \/ AcquireFailed(k) \/ Release(k)

Next ==
  \/ \E k \in Callers : Acquire(k) \/ Warmup(k) \/ CallerStep(k)
  \/ \E next \in SUBSET Addrs : ApplySet(next)
  \/ \E s \in Subs : \/ BeginDrain(s) \/ WatchPoll(s) \/ WatchStop(s)
                     \/ DropIfDraining(s) \/ CloseSubPool(s)
  \/ CloseSignal \/ CloseAll

Spec == Init /\ [][Next]_vars

\* Goroutines are scheduled, timers fire, and holders release their slots.
Fairness ==
  /\ \A k \in Callers : WF_vars(CallerStep(k))
  /\ \A s \in Subs : /\ WF_vars(BeginDrain(s)) /\ WF_vars(WatchPoll(s))
                     /\ WF_vars(DropIfDraining(s)) /\ WF_vars(CloseSubPool(s))
  /\ WF_vars(CloseAll)

FairSpec == Spec /\ Fairness

-----------------------------------------------------------------------------
(* Properties.                                                             *)

\* The types of the registry, of the drain state and of the callers.
TypeOK ==
  /\ addrs \subseteq Addrs
  /\ registry \in [Addrs -> Subs \cup {NoSub}]
  /\ subAddr \in [Subs -> Addrs \cup {NoAddr}]
  /\ draining \subseteq Subs /\ subClosed \subseteq Subs
  /\ toClose \subseteq Subs /\ toDrain \subseteq Subs
  /\ watching \in [Subs -> Nat] /\ sawIdle \in [Subs -> Nat]
  /\ coreState \in {"open", "signalled", "closed"}
  /\ updates \in Nat
  /\ pc \in [Callers -> Stages]
  /\ tried \in [Callers -> SUBSET Addrs]
  /\ picked \in [Callers -> Addrs \cup {NoAddr}]
  /\ sub \in [Callers -> Subs \cup {NoSub}]
  /\ todo \in [Callers -> SUBSET Addrs]

\* "every address in mp.addrs has a non-draining sub-pool, and every draining
\* sub-pool's address is absent from mp.addrs" (managed_core.go:51), at every
\* moment and not only on exit from applySet.
DrainingLeftTheSet ==
  \A a \in addrs : registry[a] # NoSub => registry[a] \notin draining

\* The sub-pool of an address that is in the set is not taken from it: a watcher
\* that saw it idle while it was draining cannot tear down an address that came
\* back meanwhile (dropIfDraining, managed_core.go:409).
LiveAddressKept ==
  [][coreState' # "closed" =>
       \A a \in addrs \cap addrs' : registry[a] # NoSub => registry'[a] = registry[a]]_vars

\* A sub-pool that can be reached through the registry was not closed and is not
\* about to be: an acquire that finds it there finds it usable.
RegisteredIsOpen ==
  \A a \in Addrs : registry[a] # NoSub => registry[a] \notin subClosed \cup toClose

\* No sub-pool is lost: each one that was created is registered under its own
\* address, closed, or about to be closed by whoever unregistered it.
NoSubPoolLost ==
  \A s \in Subs : subAddr[s] # NoAddr => Registered(s) \/ s \in subClosed \cup toClose

\* Once Close has cleared the registry nothing is registered again, although
\* callers and Run may still be between two of their critical sections.
NothingAfterClose ==
  coreState = "closed" => \A a \in Addrs : registry[a] = NoSub

\* Under DrainGraceful a sub-pool that is marked draining has a goroutine that
\* will drop it, until the address returns or the core is closed.
DrainIsWatched ==
  (DrainMode = "graceful" /\ coreState = "open") =>
    \A s \in draining : Registered(s) => s \in toDrain \/ watching[s] + sawIdle[s] > 0

\* Under DrainGraceful and DrainHard the sub-pool of a removed address is closed
\* unless its address returns: draining does not go on for ever.
DrainEnds ==
  \A s \in Subs : s \in draining ~> (s \notin draining \/ s \in subClosed)
=============================================================================
