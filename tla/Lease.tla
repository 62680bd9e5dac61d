-------------------------------- MODULE Lease --------------------------------
(***************************************************************************)
(* What a pool with exclusive checkout promises of every connection,       *)
(* whoever asks for one and however the pool decides: one user at a time,  *)
(* who keeps it until it hands it back, no user after one that handed it   *)
(* back as not reusable, and no new user once the pool is closed.          *)
(***************************************************************************)
CONSTANTS
  Conns,
  Users,     \* everybody who may use a connection, the pool's inspector included
  Inspector  \* the user through whom the pool itself looks at an idle connection

VARIABLES
  pool,   \* "open" or "closed"
  users,  \* per connection: who may read from and write to its socket
  life    \* per connection: "gone" (closed or not yet dialled), "open" (usable or
          \* in use), "back" (handed back, reusable), "spent" (not reusable)

leaseVars == <<pool, users, life>>

LeaseInit ==
  /\ pool = "open"
  /\ users = [c \in Conns |-> {}]
  /\ life = [c \in Conns |-> "gone"]

Becomes(c, us, l) == users'[c] = us /\ life'[c] = l

Dial(c)   == users[c] = {} /\ life[c] = "gone" /\ Becomes(c, {}, "open")
Take(c)   == /\ users[c] = {} /\ life[c] \in {"open", "back"}
             /\ \E u \in Users : Becomes(c, {u}, "open")
Rest(c)   == users[c] = {} /\ life[c] = "back" /\ Becomes(c, {}, "open")
Retire(c) == users[c] = {} /\ life[c] # "gone" /\ Becomes(c, {}, "gone")
Return(c) == /\ users[c] # {} /\ users[c] # {Inspector} /\ life[c] = "open"
             /\ \E l \in {"back", "spent"} : Becomes(c, {}, l)

\* What the pool has inspected it may keep, drop or hand on at once.
Inspect(c) == /\ users[c] = {Inspector} /\ life[c] = "open"
              /\ \/ Becomes(c, {}, "open") \/ Becomes(c, {}, "gone")
                 \/ \E u \in Users : Becomes(c, {u}, "open")

LeaseStep(c) ==
  \/ Becomes(c, users[c], life[c])
  \/ Dial(c) \/ Take(c) \/ Rest(c) \/ Retire(c) \/ Return(c) \/ Inspect(c)

\* In a closed pool users only leave, and what they still hold is closed.
Closed(c) == users'[c] \subseteq users[c] /\ (users'[c] # {} => life'[c] = "gone")

LeaseNext ==
  \/ pool = "open" /\ pool' = "open" /\ \A c \in Conns : LeaseStep(c)
  \/ pool' = "closed" /\ \A c \in Conns : Closed(c)

LeaseSpec == LeaseInit /\ [][LeaseNext]_leaseVars
=============================================================================
