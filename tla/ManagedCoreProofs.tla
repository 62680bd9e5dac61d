------------------------- MODULE ManagedCoreProofs -------------------------
(***************************************************************************)
(* Proofs about ManagedCore for any callers, addresses and sub-pools, any  *)
(* number of resolver updates and each drain mode.                         *)
(***************************************************************************)
EXTENDS ManagedCore, TLAPS

-----------------------------------------------------------------------------
(* The inductive invariant.                                                *)

\* A registered sub-pool is registered under its own address: why the delete
\* of one entry can never hit the sub-pool of another address.
OwnAddress == \A a \in Addrs : registry[a] # NoSub => subAddr[registry[a]] = a

\* Only sub-pools that were created are drained or closed: why a new one starts
\* undrained and open.
OnlyCreated ==
  \A s \in draining \cup subClosed \cup toClose : subAddr[s] # NoAddr

\* beginDrain is called for sub-pools that are marked.
MarkedFirst == toDrain \subseteq draining

\* A caller past the selector has an address.
HasAddress ==
  \A k \in Callers : pc[k] \in {"lookup", "create", "acquire"} => picked[k] \in Addrs

SharedTypes ==
  /\ addrs \subseteq Addrs
  /\ registry \in [Addrs -> Subs \cup {NoSub}]
  /\ subAddr \in [Subs -> Addrs \cup {NoAddr}]
  /\ draining \subseteq Subs /\ subClosed \subseteq Subs
  /\ toClose \subseteq Subs /\ toDrain \subseteq Subs
  /\ watching \in [Subs -> Nat] /\ sawIdle \in [Subs -> Nat]
  /\ coreState \in {"open", "signalled", "closed"}
  /\ updates \in Nat

CallerTypes ==
  /\ pc \in [Callers -> Stages]
  /\ tried \in [Callers -> SUBSET Addrs]
  /\ picked \in [Callers -> Addrs \cup {NoAddr}]
  /\ sub \in [Callers -> Subs \cup {NoSub}]
  /\ todo \in [Callers -> SUBSET Addrs]
  /\ HasAddress

Shared ==
  /\ SharedTypes /\ OwnAddress /\ OnlyCreated /\ MarkedFirst
  /\ DrainingLeftTheSet /\ RegisteredIsOpen /\ NoSubPoolLost /\ NothingAfterClose
  /\ DrainIsWatched

IInv == Shared /\ CallerTypes

LEMMA InitIInv == Init => IInv
<1> SUFFICES ASSUME Init PROVE IInv
  BY Zenon
<1>1. SharedTypes /\ CallerTypes
  BY Zenon DEF Init, SharedTypes, CallerTypes, HasAddress, Stages
<1>2. OwnAddress /\ OnlyCreated /\ MarkedFirst /\ DrainingLeftTheSet /\ RegisteredIsOpen
      /\ NoSubPoolLost /\ NothingAfterClose /\ DrainIsWatched
  BY Zenon DEF Init, OwnAddress, OnlyCreated, MarkedFirst, DrainingLeftTheSet, RegisteredIsOpen,
         NoSubPoolLost, NothingAfterClose, DrainIsWatched
<1> QED  BY Zenon, <1>1, <1>2 DEF IInv, Shared

-----------------------------------------------------------------------------
(* The callers' own state.                                                 *)

LEMMA ReturnTypes ==
  ASSUME CallerTypes, NEW k \in Callers, Return(k)
  PROVE  CallerTypes'
BY Zenon DEF CallerTypes, HasAddress, Return, Stages

LEMMA NextAddressTypes ==
  ASSUME CallerTypes, NEW k \in Callers, picked[k] \in Addrs, NextAddress(k)
  PROVE  CallerTypes'
BY DEF CallerTypes, HasAddress, NextAddress, TriedAfter, Stages

LEMMA GotTypes ==
  ASSUME CallerTypes, NEW k \in Callers, NEW s \in Subs, picked[k] \in Addrs, Got(k, s)
  PROVE  CallerTypes'
<1>1. CASE todo[k] # {} /\ NextAddress(k)
  BY Zenon, <1>1, NextAddressTypes
<1>2. CASE /\ sub' = [sub EXCEPT ![k] = s]
           /\ pc' = [pc EXCEPT ![k] = "acquire"]
           /\ UNCHANGED <<tried, picked, todo>>
  BY Zenon, <1>2 DEF CallerTypes, HasAddress, Stages
<1> QED  BY Zenon, <1>1, <1>2 DEF Got

\* Everything but the callers' own state is left alone.
SharedSame == UNCHANGED <<registryVars, drainVars, coreState, updates>>

LEMMA SharedStays ==
  ASSUME Shared, SharedSame
  PROVE  Shared'
BY Zenon DEF Shared, SharedSame, registryVars, drainVars, SharedTypes, OwnAddress, OnlyCreated,
       MarkedFirst, DrainingLeftTheSet, RegisteredIsOpen, NoSubPoolLost, NothingAfterClose,
       DrainIsWatched, Registered

LEMMA CallerKeeps ==
  ASSUME IInv, NEW k \in Callers,
         \/ Acquire(k) \/ Warmup(k) \/ Pick(k) \/ GetSubPool(k)
         \/ AcquireOk(k) \/ AcquireDialErr(k) \/ AcquireFailed(k) \/ Release(k)
  PROVE  SharedSame /\ CallerTypes'
<1> USE DEF IInv
<1>1. SharedSame
  BY Zenon DEF SharedSame, Acquire, Warmup, Pick, GetSubPool, AcquireOk, AcquireDialErr,
         AcquireFailed, Release
<1>  SUFFICES CallerTypes'
  BY Zenon, <1>1
<1>2. CASE Acquire(k) \/ Warmup(k) \/ AcquireOk(k)
  BY Zenon, <1>2 DEF Acquire, Warmup, AcquireOk, CallerTypes, HasAddress, Stages, Shared,
     SharedTypes
<1>3. CASE Pick(k)
  <2>1. CASE Return(k)
    BY Zenon, <2>1, ReturnTypes
  <2>2. CASE \E a \in Addrs :
               /\ picked' = [picked EXCEPT ![k] = a]
               /\ pc' = [pc EXCEPT ![k] = "lookup"]
               /\ UNCHANGED <<tried, sub, todo>>
    BY ZenonT(60), <2>2 DEF CallerTypes, HasAddress, Stages
  <2>3. SnapshotActive \subseteq Addrs /\ todo[k] \subseteq Addrs
    BY Zenon DEF SnapshotActive, Shared, SharedTypes, CallerTypes
  <2> QED  BY Zenon, <1>3, <2>1, <2>2, <2>3 DEF Pick
<1>4. CASE GetSubPool(k)
  <2>1. picked[k] \in Addrs /\ registry[picked[k]] \in Subs \cup {NoSub}
    BY Zenon, <1>4 DEF GetSubPool, CallerTypes, HasAddress, Shared, SharedTypes
  <2>2. CASE NextAddress(k)
    BY Zenon, <2>1, <2>2, NextAddressTypes
  <2>3. CASE registry[picked[k]] # NoSub /\ Got(k, registry[picked[k]])
    BY Zenon, <2>1, <2>3, GotTypes
  <2>4. CASE pc' = [pc EXCEPT ![k] = "create"] /\ UNCHANGED <<tried, picked, sub, todo>>
    BY Zenon, <2>1, <2>4 DEF CallerTypes, HasAddress, Stages
  <2> QED  BY Zenon, <1>4, <2>2, <2>3, <2>4 DEF GetSubPool
<1>5. CASE AcquireDialErr(k)
  BY Zenon, <1>5, NextAddressTypes DEF AcquireDialErr, CallerTypes, HasAddress
<1>6. CASE AcquireFailed(k) \/ Release(k)
  BY Zenon, <1>6, ReturnTypes DEF AcquireFailed, Release
<1> QED  BY Zenon, <1>2, <1>3, <1>4, <1>5, <1>6

-----------------------------------------------------------------------------
(* The steps that change the registry or the drain state.                  *)

\* A new sub-pool is registered for an address that has none.
LEMMA NewSubPool ==
  ASSUME Shared, coreState = "open", NEW a \in Addrs, NEW n \in Subs,
         registry[a] = NoSub, subAddr[n] = NoAddr,
         subAddr' = [subAddr EXCEPT ![n] = a],
         registry' = [registry EXCEPT ![a] = n],
         UNCHANGED <<addrs, draining, drainVars, coreState, updates>>
  PROVE  Shared'
<1> USE CoreAssumption DEF Shared
<1>1. SharedTypes' /\ OwnAddress' /\ OnlyCreated' /\ MarkedFirst'
  BY Zenon DEF SharedTypes, OwnAddress, OnlyCreated, MarkedFirst, drainVars
<1>2. n \notin draining \cup subClosed \cup toClose
  BY Zenon DEF OnlyCreated
<1>3. DrainingLeftTheSet' /\ RegisteredIsOpen' /\ NothingAfterClose'
  BY Zenon, <1>2 DEF SharedTypes, DrainingLeftTheSet, RegisteredIsOpen, NothingAfterClose, drainVars
<1>4. \A s \in Subs \ {n} : /\ subAddr'[s] = subAddr[s]
                            /\ subAddr[s] # NoAddr => (Registered(s)' <=> Registered(s))
  BY Zenon DEF SharedTypes, Registered, OwnAddress
<1>5. Registered(n)'
  BY Zenon DEF SharedTypes, Registered
<1>6. NoSubPoolLost'
  BY Zenon, <1>4, <1>5 DEF NoSubPoolLost, drainVars
<1>7. DrainIsWatched'
  <2>1. \A s \in draining : s \in Subs \ {n} /\ subAddr[s] # NoAddr
    BY Zenon, <1>2 DEF SharedTypes, OnlyCreated
  <2> QED  BY Zenon, <1>4, <2>1 DEF DrainIsWatched, drainVars
<1> QED  BY Zenon, <1>1, <1>3, <1>6, <1>7

LEMMA CreateSubPoolKeeps ==
  ASSUME IInv, NEW k \in Callers, CreateSubPool(k)
  PROVE  IInv'
<1> USE DEF IInv
<1>1. picked[k] \in Addrs /\ registry[picked[k]] \in Subs \cup {NoSub}
  BY Zenon DEF CreateSubPool, CallerTypes, HasAddress, Shared, SharedTypes
<1>2. CASE NextAddress(k) /\ UNCHANGED registryVars
  BY Zenon, <1>1, <1>2, NextAddressTypes, SharedStays DEF CreateSubPool, SharedSame
<1>3. CASE registry[picked[k]] # NoSub /\ Got(k, registry[picked[k]]) /\ UNCHANGED registryVars
  BY Zenon, <1>1, <1>3, GotTypes, SharedStays DEF CreateSubPool, SharedSame
<1>4. CASE /\ MayCreate /\ registry[picked[k]] = NoSub
           /\ \E n \in Subs :
                /\ subAddr[n] = NoAddr
                /\ subAddr' = [subAddr EXCEPT ![n] = picked[k]]
                /\ registry' = [registry EXCEPT ![picked[k]] = n]
                /\ Got(k, n)
           /\ UNCHANGED <<addrs, draining>>
  <2>1. PICK n \in Subs :
                /\ subAddr[n] = NoAddr
                /\ subAddr' = [subAddr EXCEPT ![n] = picked[k]]
                /\ registry' = [registry EXCEPT ![picked[k]] = n]
                /\ Got(k, n)
    BY Zenon, <1>4
  <2>2. CallerTypes'
    BY Zenon, <1>1, <2>1, GotTypes
  <2>3. UNCHANGED <<drainVars, coreState, updates>>
    BY Zenon DEF CreateSubPool
  <2>4. Shared'
    BY Zenon, <1>1, <1>4, <2>1, <2>3, NewSubPool DEF MayCreate
  <2> QED  BY Zenon, <2>2, <2>4
<1> QED  BY Zenon, <1>2, <1>3, <1>4 DEF CreateSubPool

LEMMA CallersSame ==
  ASSUME CallerTypes, UNCHANGED callerVars
  PROVE  CallerTypes'
BY Zenon DEF CallerTypes, HasAddress, callerVars

\* What ApplySet makes of the drain marks.
LEMMA Marks ==
  ASSUME Shared, NEW next \in SUBSET Addrs
  PROVE  /\ Removed(next) \subseteq Subs
         /\ \A s \in Removed(next) : subAddr[s] \in addrs \ next /\ Registered(s)
         /\ \A a \in next : registry[a] # NoSub => registry[a] \notin DrainingAfter(next)
         /\ DrainingAfter(next) \subseteq draining \cup Removed(next)
<1> USE CoreAssumption DEF Shared, SharedTypes
<1>1. Removed(next) \subseteq Subs
  BY Zenon DEF Removed
<1>2. \A s \in Removed(next) : subAddr[s] \in addrs \ next /\ Registered(s)
  BY DEF Removed, OwnAddress, Registered
<1>3. ASSUME NEW a \in next, registry[a] # NoSub PROVE registry[a] \notin DrainingAfter(next)
  <2>1. subAddr[registry[a]] = a
    BY Zenon, <1>3 DEF OwnAddress
  <2> QED  BY <1>2, <2>1 DEF DrainingAfter
<1> QED  BY Zenon, <1>1, <1>2, <1>3 DEF DrainingAfter

LEMMA ApplySetKeeps ==
  ASSUME Shared, NEW next \in SUBSET Addrs, ApplySet(next)
  PROVE  Shared'
<1> USE DEF Shared
<1>1. /\ Removed(next) \subseteq Subs
      /\ \A s \in Removed(next) : subAddr[s] \in addrs \ next /\ Registered(s)
      /\ \A a \in next : registry[a] # NoSub => registry[a] \notin DrainingAfter(next)
      /\ DrainingAfter(next) \subseteq draining \cup Removed(next)
  BY Zenon, Marks
<1>2. /\ draining' = DrainingAfter(next) /\ toDrain' = DrainingAfter(next) \ draining
      /\ addrs' = next /\ toDrain = {} /\ updates' = updates + 1
      /\ UNCHANGED <<registry, subAddr, subClosed, toClose, watching, sawIdle, coreState>>
  BY Zenon DEF ApplySet
<1>3. SharedTypes'
  BY <1>1, <1>2 DEF SharedTypes
<1>4. OwnAddress' /\ MarkedFirst' /\ RegisteredIsOpen' /\ NothingAfterClose' /\ NoSubPoolLost'
  BY Zenon, <1>2 DEF OwnAddress, MarkedFirst, RegisteredIsOpen, NothingAfterClose, NoSubPoolLost,
              Registered
<1>5. OnlyCreated'
  BY Zenon, <1>1, <1>2 DEF OnlyCreated, Registered
<1>6. DrainingLeftTheSet'
  BY Zenon, <1>1, <1>2 DEF DrainingLeftTheSet
<1>7. DrainIsWatched'
  BY Zenon, <1>1, <1>2 DEF DrainIsWatched, Registered
<1> QED  BY Zenon, <1>3, <1>4, <1>5, <1>6, <1>7

\* One entry of the registry is deleted and its sub-pool is to be closed.
LEMMA Dropped ==
  ASSUME Shared, NEW s \in Subs, subAddr[s] # NoAddr,
         registry' = Unregister(s), toClose' = toClose \cup {s},
         UNCHANGED <<subAddr, subClosed, addrs, draining>>
  PROVE  /\ registry' \in [Addrs -> Subs \cup {NoSub}]
         /\ \A a \in Addrs : registry'[a] # NoSub => registry'[a] = registry[a] /\ registry[a] # s
         /\ \A t \in Subs \ {s} : Registered(t)' <=> Registered(t)
         /\ ~Registered(s)'
<1> USE CoreAssumption DEF Shared, SharedTypes
<1>1. subAddr[s] \in Addrs
  BY Zenon
<1>2. registry' = [registry EXCEPT ![subAddr[s]] = IF registry[subAddr[s]] = s THEN NoSub
                                                  ELSE registry[subAddr[s]]]
  BY Zenon DEF Unregister
<1>3. registry' \in [Addrs -> Subs \cup {NoSub}]
  BY Zenon, <1>1, <1>2
<1>4. \A a \in Addrs : registry'[a] # NoSub => registry'[a] = registry[a] /\ registry[a] # s
  BY Zenon, <1>1, <1>2 DEF OwnAddress
<1>5. \A t \in Subs \ {s} : Registered(t)' <=> Registered(t)
  BY <1>1, <1>2 DEF Registered
<1>6. ~Registered(s)'
  BY Zenon, <1>1, <1>2 DEF Registered
<1> QED  BY Zenon, <1>3, <1>4, <1>5, <1>6

LEMMA DropKeeps ==
  ASSUME Shared, NEW s \in Subs, subAddr[s] # NoAddr,
         registry' = Unregister(s), toClose' = toClose \cup {s},
         UNCHANGED <<addrs, subAddr, draining, subClosed, coreState, updates>>,
         toDrain' \subseteq toDrain,
         watching' \in [Subs -> Nat], sawIdle' \in [Subs -> Nat],
         \A t \in Subs \ {s} :
           /\ watching'[t] = watching[t] /\ sawIdle'[t] = sawIdle[t]
           /\ t \in toDrain => t \in toDrain'
  PROVE  Shared'
<1> USE DEF Shared
<1>1. /\ registry' \in [Addrs -> Subs \cup {NoSub}]
      /\ \A a \in Addrs : registry'[a] # NoSub => registry'[a] = registry[a] /\ registry[a] # s
      /\ \A t \in Subs \ {s} : Registered(t)' <=> Registered(t)
      /\ ~Registered(s)'
  BY Zenon, Dropped
<1>2. SharedTypes' /\ MarkedFirst'
  BY Zenon, <1>1 DEF SharedTypes, MarkedFirst
<1>3. OwnAddress' /\ RegisteredIsOpen' /\ NothingAfterClose'
  BY Zenon, <1>1 DEF OwnAddress, RegisteredIsOpen, NothingAfterClose
<1>4. DrainingLeftTheSet' /\ OnlyCreated'
  BY Zenon, <1>1 DEF DrainingLeftTheSet, OnlyCreated, SharedTypes
<1>5. NoSubPoolLost'
  BY Zenon, <1>1 DEF NoSubPoolLost
<1>6. DrainIsWatched'
  <2> SUFFICES ASSUME DrainMode = "graceful", coreState = "open",
                      NEW t \in draining, Registered(t)'
               PROVE  t \in toDrain' \/ watching'[t] + sawIdle'[t] > 0
    BY Zenon DEF DrainIsWatched
  <2>1. t \in Subs \ {s} /\ Registered(t)
    BY Zenon, <1>1 DEF SharedTypes
  <2>2. t \in toDrain \/ watching[t] + sawIdle[t] > 0
    BY Zenon, <2>1 DEF DrainIsWatched
  <2>3. watching'[t] = watching[t] /\ sawIdle'[t] = sawIdle[t] /\ (t \in toDrain => t \in toDrain')
    BY Zenon, <2>1
  <2> QED  BY Zenon, <2>2, <2>3
<1> QED  BY Zenon, <1>2, <1>3, <1>4, <1>5, <1>6

\* The watchers move, the registry does not.
LEMMA WatchKeeps ==
  ASSUME Shared,
         UNCHANGED <<registry, addrs, subAddr, draining, subClosed, toClose, coreState, updates>>,
         toDrain' \subseteq toDrain,
         watching' \in [Subs -> Nat], sawIdle' \in [Subs -> Nat],
         DrainIsWatched'
  PROVE  Shared'
BY Zenon DEF Shared, SharedTypes, OwnAddress, OnlyCreated, MarkedFirst, DrainingLeftTheSet,
       RegisteredIsOpen, NoSubPoolLost, NothingAfterClose, Registered

LEMMA BeginDrainKeeps ==
  ASSUME Shared, NEW s \in Subs, BeginDrain(s)
  PROVE  Shared'
<1> USE DEF Shared
<1>1. /\ s \in toDrain /\ toDrain' = toDrain \ {s}
      /\ UNCHANGED <<addrs, subAddr, draining, subClosed, sawIdle, coreState, updates>>
      /\ watching' = Watchers(s)
  BY Zenon DEF BeginDrain
<1>2. subAddr[s] # NoAddr
  BY Zenon, <1>1 DEF MarkedFirst, OnlyCreated
<1>3. /\ watching' \in [Subs -> Nat] /\ \A t \in Subs \ {s} : watching'[t] = watching[t]
      /\ DrainMode = "graceful" => watching'[s] = watching[s] + 1
  BY <1>1 DEF Watchers, SharedTypes
<1>4. sawIdle' \in [Subs -> Nat] /\ \A t \in Subs \ {s} : t \in toDrain => t \in toDrain'
  BY Zenon, <1>1 DEF SharedTypes
<1>5. CASE DrainMode = "hard"
  <2>1. registry' = Unregister(s) /\ toClose' = toClose \cup {s}
    BY Zenon, <1>5 DEF BeginDrain
  <2> QED  BY Zenon, <1>1, <1>2, <1>3, <1>4, <2>1, DropKeeps
<1>6. CASE DrainMode # "hard"
  <2>1. UNCHANGED <<registry, toClose>>
    BY Zenon, <1>6 DEF BeginDrain
  <2>2. DrainIsWatched'
    <3> SUFFICES ASSUME DrainMode = "graceful", coreState = "open",
                        NEW t \in draining, Registered(t)
                 PROVE  t \in toDrain' \/ watching'[t] + sawIdle'[t] > 0
      BY Zenon, <1>1, <2>1 DEF DrainIsWatched, Registered
    <3>1. t \in Subs /\ (t \in toDrain \/ watching[t] + sawIdle[t] > 0)
      BY Zenon DEF DrainIsWatched, SharedTypes
    <3>2. watching[t] \in Nat /\ sawIdle[t] \in Nat
      BY Zenon, <3>1 DEF SharedTypes
    <3> QED  BY <1>1, <1>3, <3>1, <3>2
  <2> QED  BY Zenon, <1>1, <1>3, <1>4, <2>1, <2>2, WatchKeeps
<1> QED  BY Zenon, <1>5, <1>6

LEMMA WatchPollKeeps ==
  ASSUME Shared, NEW s \in Subs, WatchPoll(s)
  PROVE  Shared'
<1> USE DEF Shared
<1>1. /\ watching[s] > 0
      /\ watching' = [watching EXCEPT ![s] = @ - 1] /\ sawIdle' = [sawIdle EXCEPT ![s] = @ + 1]
      /\ UNCHANGED <<registryVars, subClosed, toClose, toDrain, coreState, updates>>
  BY Zenon DEF WatchPoll
<1>2. watching' \in [Subs -> Nat] /\ sawIdle' \in [Subs -> Nat]
  BY <1>1 DEF SharedTypes
<1>3. \A t \in Subs : watching'[t] + sawIdle'[t] = watching[t] + sawIdle[t]
  BY <1>1 DEF SharedTypes
<1>4. DrainIsWatched'
  BY Zenon, <1>1, <1>3 DEF DrainIsWatched, Registered, registryVars, SharedTypes
<1> QED  BY Zenon, <1>1, <1>2, <1>4, WatchKeeps DEF registryVars

LEMMA WatchStopKeeps ==
  ASSUME Shared, NEW s \in Subs, WatchStop(s)
  PROVE  Shared'
<1> USE DEF Shared
<1>1. watching' \in [Subs -> Nat] /\ sawIdle' \in [Subs -> Nat]
  BY DEF WatchStop, SharedTypes
<1>2. DrainIsWatched'
  BY Zenon DEF WatchStop, DrainIsWatched
<1> QED  BY Zenon, <1>1, <1>2, WatchKeeps DEF WatchStop, registryVars

LEMMA DropIfDrainingKeeps ==
  ASSUME Shared, NEW s \in Subs, DropIfDraining(s)
  PROVE  Shared'
<1> USE DEF Shared
<1>1. /\ sawIdle[s] > 0 /\ sawIdle' = [sawIdle EXCEPT ![s] = @ - 1]
      /\ UNCHANGED <<addrs, subAddr, draining, subClosed, toDrain, watching, coreState, updates>>
  BY Zenon DEF DropIfDraining
<1>2. /\ watching' \in [Subs -> Nat] /\ sawIdle' \in [Subs -> Nat]
      /\ \A t \in Subs \ {s} : sawIdle'[t] = sawIdle[t]
  BY <1>1 DEF SharedTypes
<1>3. CASE StillDraining(s)
  <2>1. registry' = Unregister(s) /\ toClose' = toClose \cup {s} /\ subAddr[s] # NoAddr
    BY Zenon, <1>3 DEF DropIfDraining, StillDraining, Registered
  <2> QED  BY Zenon, <1>1, <1>2, <2>1, DropKeeps
<1>4. CASE ~StillDraining(s)
  <2>1. UNCHANGED <<registry, toClose>>
    BY Zenon, <1>4 DEF DropIfDraining
  <2>2. DrainIsWatched'
    <3> SUFFICES ASSUME DrainMode = "graceful", coreState = "open",
                        NEW t \in draining, Registered(t)
                 PROVE  t \in toDrain \/ watching[t] + sawIdle'[t] > 0
      BY Zenon, <1>1, <2>1 DEF DrainIsWatched, Registered
    <3>1. t \in Subs \ {s}
      BY Zenon, <1>4 DEF StillDraining, SharedTypes
    <3> QED  BY Zenon, <1>2, <3>1 DEF DrainIsWatched
  <2> QED  BY Zenon, <1>1, <1>2, <2>1, <2>2, WatchKeeps
<1> QED  BY Zenon, <1>3, <1>4

LEMMA CloseSubPoolKeeps ==
  ASSUME Shared, NEW s \in Subs, CloseSubPool(s)
  PROVE  Shared'
BY DEF CloseSubPool, registryVars, Shared, SharedTypes, OwnAddress, OnlyCreated, MarkedFirst,
       DrainingLeftTheSet, RegisteredIsOpen, NoSubPoolLost, NothingAfterClose, DrainIsWatched,
       Registered

LEMMA CloseKeeps ==
  ASSUME Shared, CloseSignal \/ CloseAll
  PROVE  Shared'
<1> USE DEF Shared
<1>1. CASE CloseSignal
  BY Zenon, <1>1 DEF CloseSignal, registryVars, drainVars, SharedTypes, OwnAddress, OnlyCreated,
              MarkedFirst, DrainingLeftTheSet, RegisteredIsOpen, NoSubPoolLost,
              NothingAfterClose, DrainIsWatched, Registered
<1>2. CASE CloseAll
  <2>1. \A a \in Addrs : registry'[a] = NoSub
    BY Zenon, <1>2 DEF CloseAll
  <2>2. SharedTypes'
    BY Zenon, <1>2 DEF CloseAll, ClosedByClose, SharedTypes
  <2>3. OwnAddress' /\ DrainingLeftTheSet' /\ RegisteredIsOpen' /\ NothingAfterClose'
        /\ MarkedFirst' /\ DrainIsWatched'
    BY Zenon, <1>2, <2>1 DEF CloseAll, OwnAddress, DrainingLeftTheSet, RegisteredIsOpen,
                      NothingAfterClose, MarkedFirst, DrainIsWatched
  <2>4. OnlyCreated' /\ NoSubPoolLost'
    BY Zenon, <1>2 DEF CloseAll, ClosedByClose, OnlyCreated, NoSubPoolLost, Registered
  <2> QED  BY Zenon, <2>2, <2>3, <2>4
<1> QED  BY Zenon, <1>1, <1>2

LEMMA NextKeeps == IInv /\ [Next]_vars => IInv'
<1> SUFFICES ASSUME IInv, [Next]_vars PROVE IInv'
  BY Zenon
<1>1. ASSUME NEW k \in Callers, Acquire(k) \/ Warmup(k) \/ CallerStep(k) PROVE IInv'
  <2>1. CASE CreateSubPool(k)
    BY Zenon, <2>1, CreateSubPoolKeeps
  <2>2. CASE ~CreateSubPool(k)
    BY Zenon, <1>1, <2>2, CallerKeeps, SharedStays DEF CallerStep, IInv
  <2> QED  BY Zenon, <2>1, <2>2
<1>2. ASSUME NEW next \in SUBSET Addrs, ApplySet(next) PROVE IInv'
  BY Zenon, <1>2, ApplySetKeeps, CallersSame DEF ApplySet, IInv
<1>3. ASSUME NEW s \in Subs,
             \/ BeginDrain(s) \/ WatchPoll(s) \/ WatchStop(s)
             \/ DropIfDraining(s) \/ CloseSubPool(s)
      PROVE  IInv'
  <2>1. Shared'
    BY Zenon, <1>3, BeginDrainKeeps, WatchPollKeeps, WatchStopKeeps, DropIfDrainingKeeps,
       CloseSubPoolKeeps DEF IInv
  <2>2. UNCHANGED callerVars
    BY Zenon, <1>3 DEF BeginDrain, WatchPoll, WatchStop, DropIfDraining, CloseSubPool
  <2> QED  BY Zenon, <2>1, <2>2, CallersSame DEF IInv
<1>4. CASE CloseSignal \/ CloseAll
  BY Zenon, <1>4, CloseKeeps, CallersSame DEF CloseSignal, CloseAll, IInv
<1>5. CASE UNCHANGED vars
  BY Zenon, <1>5, SharedStays, CallersSame DEF vars, SharedSame, registryVars, drainVars,
     callerVars, IInv
<1> QED  BY Zenon, <1>1, <1>2, <1>3, <1>4, <1>5 DEF Next

-----------------------------------------------------------------------------
(* The theorems.                                                           *)

\* The registry, the drain state and the callers keep their types.
THEOREM TypeCorrect == Spec => []TypeOK
<1>1. IInv => TypeOK
  BY Zenon DEF IInv, Shared, SharedTypes, CallerTypes, TypeOK
<1> QED  BY <1>1, InitIInv, NextKeeps, PTL DEF Spec

\* No sub-pool that was created is forgotten by the resolver's updates, the
\* drain watchers and Close together: it is registered, closed or about to be.
THEOREM SubPoolsAccounted == Spec => [](NoSubPoolLost /\ RegisteredIsOpen)
<1>1. IInv => NoSubPoolLost /\ RegisteredIsOpen
  BY Zenon DEF IInv, Shared
<1> QED  BY <1>1, InitIInv, NextKeeps, PTL DEF Spec

\* Draining sub-pools are those whose address left the set (managed_core.go:51),
\* each with a goroutine that will drop it.
THEOREM DrainDiscipline == Spec => [](DrainingLeftTheSet /\ DrainIsWatched)
<1>1. IInv => DrainingLeftTheSet /\ DrainIsWatched
  BY Zenon DEF IInv, Shared
<1> QED  BY <1>1, InitIInv, NextKeeps, PTL DEF Spec

\* Close is final: no caller in flight registers a sub-pool behind it.
THEOREM CloseIsFinal == Spec => []NothingAfterClose
<1>1. IInv => NothingAfterClose
  BY Zenon DEF IInv, Shared
<1> QED  BY <1>1, InitIInv, NextKeeps, PTL DEF Spec

\* No watcher, drain or caller takes the sub-pool of an address that stays in
\* the set (the revive-versus-watchdog race of dropIfDraining).
THEOREM ReviveWins == Spec => LiveAddressKept
<1> DEFINE Kept == coreState' # "closed" =>
             \A a \in addrs \cap addrs' : registry[a] # NoSub => registry'[a] = registry[a]
<1>1. ASSUME IInv, Next, NEW a \in addrs, coreState' # "closed", registry[a] # NoSub
      PROVE  registry'[a] = registry[a]
  <2> USE <1>1 DEF IInv, Shared
  <2>1. /\ a \in Addrs /\ registry[a] \notin draining /\ subAddr[registry[a]] = a
    BY Zenon DEF SharedTypes, DrainingLeftTheSet, OwnAddress
  <2>2. ASSUME NEW k \in Callers, CreateSubPool(k) PROVE registry'[a] = registry[a]
    <3>1. picked[k] \in Addrs
      BY Zenon, <2>2 DEF CreateSubPool, CallerTypes, HasAddress
    <3> QED  BY Zenon, <2>1, <2>2, <3>1 DEF CreateSubPool, registryVars, SharedTypes
  <2>3. ASSUME NEW k \in Callers, Acquire(k) \/ Warmup(k) \/ CallerStep(k), ~CreateSubPool(k)
        PROVE  registry'[a] = registry[a]
    BY Zenon, <2>3, CallerKeeps DEF CallerStep, SharedSame, registryVars
  <2>4. ASSUME NEW s \in draining, registry' = Unregister(s)
        PROVE  registry'[a] = registry[a]
    <3>1. s \in Subs /\ subAddr[s] \in Addrs /\ s # registry[a]
      BY Zenon, <2>1 DEF SharedTypes, OnlyCreated
    <3> QED  BY Zenon, <2>1, <2>4, <3>1 DEF Unregister, SharedTypes
  <2>5. ASSUME NEW s \in Subs,
             \/ BeginDrain(s) \/ WatchPoll(s) \/ WatchStop(s)
             \/ DropIfDraining(s) \/ CloseSubPool(s)
        PROVE  registry'[a] = registry[a]
    <3>1. registry' = registry \/ (s \in draining /\ registry' = Unregister(s))
      BY Zenon, <2>5 DEF BeginDrain, WatchPoll, WatchStop, DropIfDraining, CloseSubPool,
         registryVars,
                  MarkedFirst, StillDraining
    <3> QED  BY Zenon, <2>4, <3>1
  <2>6. ASSUME NEW next \in SUBSET Addrs, ApplySet(next) PROVE registry'[a] = registry[a]
    BY Zenon, <2>6 DEF ApplySet
  <2>7. CASE CloseSignal \/ CloseAll
    BY Zenon, <2>7 DEF CloseSignal, CloseAll, registryVars
  <2> QED  BY Zenon, <2>2, <2>3, <2>5, <2>6, <2>7 DEF Next
<1>2. IInv /\ [Next]_vars => [Kept]_vars
  BY Zenon, <1>1
<1> QED  BY <1>2, InitIInv, NextKeeps, PTL DEF Spec, LiveAddressKept
=============================================================================
