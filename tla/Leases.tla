--------------------------------- MODULE Leases ---------------------------------
(***************************************************************************)
(* Heartbeats and task leases, src/src/pipeline/heartbeat, on top of the   *)
(* ownership register.  create_lease and release_lease are a sequence of   *)
(* critical sections; revoke_lease keeps the lease map locked through all  *)
(* of its own, which `lock` records.  A client makes one call at a time.   *)
(* Time passes by Tick and Expire: a worker's last heartbeat gets older    *)
(* than degraded_timeout and then stale_timeout, a lease older than        *)
(* lease_expiry.  Progress, messages, token counts and a worker's own      *)
(* generation are left out.                                                *)
(***************************************************************************)
EXTENDS Naturals, FiniteSets

CONSTANTS
  Clients,     \* who calls create_lease, release_lease and replace_worker
  Serves,      \* Serves[c]: the tasks client c leases out
  Replacers,   \* the clients that replace stale workers
  Workers, Tasks,
  MaxLeases,   \* bound: next_lease_id stops here
  None

ASSUME LeasesAssumption ==
  /\ Serves \in [Clients -> SUBSET Tasks]
  /\ Replacers \subseteq Clients
  /\ MaxLeases \in Nat
  /\ None \notin Workers \union Tasks \union (1 .. MaxLeases)

VARIABLES
  life,        \* life[w]: WorkerLifecycle; "absent" workers are not in the map
  beat,        \* beat[w]: how old the last heartbeat is
  active,      \* active[w]: WorkerHeartbeatState.active_lease
  lease,       \* lease[l]: LeaseState, None before it is inserted
  nextLease,   \* next_lease_id
  byTask,      \* byTask[t]: leases_by_task
  lock,        \* who holds the lease map across several sections
  call,        \* call[c]: the call client c is making
  state, tokens, copy   \* of Ownership

LeaseIds == 1 .. MaxLeases
Own == INSTANCE Ownership WITH Callers <- Clients, Owners <- Workers, Leases <- LeaseIds

workerVars == <<life, beat, active>>
leaseVars  == <<lease, nextLease, byTask, lock>>
vars == <<workerVars, leaseVars, call, state, tokens, copy>>

Operational == {"active", "degraded", "stale"}
Lifecycles  == Operational \union {"replaced", "released", "absent"}
Ages        == {"healthy", "degraded", "stale"}
Terminal    == {"expired", "revoked", "released"}
LeaseType   == [worker : Workers, task : Tasks, life : {"active"} \union Terminal, over : BOOLEAN]

Idle == [step |-> "idle"]
Steps == {"lookup", "revokeOld", "look", "take", "insert", "index", "assign",
          "unindex", "disown", "clear", "revoke", "revokeIndex", "revokeWorker", "register"}
CallType == [step : Steps, worker : Workers, task : Tasks \union {None},
             lease : LeaseIds \union {None}, new : Workers \union {None}] \union {Idle}

TypeOK ==
  /\ life \in [Workers -> Lifecycles]
  /\ beat \in [Workers -> Ages]
  /\ active \in [Workers -> LeaseIds \union {None}]
  /\ lease \in [LeaseIds -> LeaseType \union {None}]
  /\ nextLease \in 1 .. MaxLeases + 1
  /\ byTask \in [Tasks -> LeaseIds \union {None}]
  /\ lock \in Clients \union {None}
  /\ call \in [Clients -> CallType]
  /\ Own!OwnTypeOK

Init ==
  /\ life = [w \in Workers |-> "absent"]
  /\ beat = [w \in Workers |-> "healthy"]
  /\ active = [w \in Workers |-> None]
  /\ lease = [l \in LeaseIds |-> None]
  /\ nextLease = 1
  /\ byTask = [t \in Tasks |-> None]
  /\ lock = None
  /\ call = [c \in Clients |-> Idle]
  /\ Own!OwnInit

IsLive(l)  == lease[l] # None /\ lease[l].life = "active"
At(c, s)   == call[c].step = s
Goto(c, s) == call' = [call EXCEPT ![c].step = s]
Begin(c, s, w, t, l, n) ==
  /\ At(c, "idle")
  /\ call' = [call EXCEPT ![c] = [step |-> s, worker |-> w, task |-> t, lease |-> l, new |-> n]]
Done(c) == call' = [call EXCEPT ![c] = Idle]

\* WorkerLifecycle::valid_transitions.
ValidTransitions ==
  {<<"active", "degraded">>, <<"active", "released">>,
   <<"degraded", "active">>, <<"degraded", "stale">>, <<"degraded", "released">>,
   <<"stale", "active">>, <<"stale", "replaced">>, <<"stale", "released">>}

\* Mutant: moves without looking at the table.
Moved_M(w, target) == target
\* transition_to: without effect when the table does not allow it.
Moved(w, target) == IF <<life[w], target>> \in ValidTransitions THEN target ELSE life[w]

HealthTarget(age) == IF age = "healthy" THEN "active" ELSE age

-------------------------------------------------------------------------------
\* Workers.

\* register_worker: a fresh state, whatever was there.
Register(w) ==
  /\ life' = [life EXCEPT ![w] = "active"]
  /\ beat' = [beat EXCEPT ![w] = "healthy"]
  /\ active' = [active EXCEPT ![w] = None]
  /\ UNCHANGED <<leaseVars, call, state, tokens, copy>>

\* unregister_worker.
Unregister(w) ==
  /\ life[w] # "absent"
  /\ life' = [life EXCEPT ![w] = Moved(w, "released")]
  /\ UNCHANGED <<beat, active, leaseVars, call, state, tokens, copy>>

\* process_heartbeat: the state takes over whatever lease the heartbeat names, which is
\* None for a plain one, and a healthy worker is active again.
HeartbeatOf(w, l) ==
  /\ life[w] \in Operational \union {"absent"}
  /\ beat' = [beat EXCEPT ![w] = "healthy"]
  /\ active' = [active EXCEPT ![w] = l]
  /\ life' = [life EXCEPT ![w] = IF @ = "absent" THEN "active" ELSE Moved(w, "active")]
  /\ UNCHANGED <<leaseVars, call, state, tokens, copy>>

\* Time: no heartbeat of w for the next timeout.
Tick(w) ==
  /\ life[w] \in Operational /\ beat[w] # "stale"
  /\ beat' = [beat EXCEPT ![w] = IF @ = "healthy" THEN "degraded" ELSE "stale"]
  /\ UNCHANGED <<life, active, leaseVars, call, state, tokens, copy>>

\* update_all_health: every worker one transition towards its health.
UpdateHealth ==
  /\ life' = [w \in Workers |-> Moved(w, HealthTarget(beat[w]))]
  /\ life' # life
  /\ UNCHANGED <<beat, active, leaseVars, call, state, tokens, copy>>

-------------------------------------------------------------------------------
\* create_lease.

\* Calls of create_lease that have not taken their id.
Unnumbered == {c \in Clients : call[c].step \in {"lookup", "revokeOld", "look"}}

\* The worker may lease: known workers must be operational, unknown ones pass.
CreateLease(c, w, t) ==
  /\ life[w] \in Operational \union {"absent"}
  /\ nextLease + Cardinality(Unnumbered) <= MaxLeases
  /\ Begin(c, "lookup", w, t, None, None)
  /\ UNCHANGED <<workerVars, leaseVars, state, tokens, copy>>

\* Mutant: does not revoke what the index names.
Lookup_M(c) ==
  /\ At(c, "lookup") /\ Goto(c, "look")
  /\ UNCHANGED <<workerVars, leaseVars, state, tokens, copy>>
\* The lease by_task names is to be revoked.
Lookup(c) ==
  /\ At(c, "lookup")
  /\ LET old == byTask[call[c].task] IN
     call' = [call EXCEPT ![c].step = IF old = None THEN "look" ELSE "revokeOld",
                          ![c].lease = old]
  /\ UNCHANGED <<workerVars, leaseVars, state, tokens, copy>>

\* revoke_lease_internal: even a lease that has ended becomes Revoked.
RevokeOld(c) ==
  /\ At(c, "revokeOld") /\ lock = None
  /\ lease' = [lease EXCEPT ![call[c].lease].life = "revoked"]
  /\ Goto(c, "look")
  /\ UNCHANGED <<workerVars, nextLease, byTask, lock, state, tokens, copy>>

\* The new id, and the first section of ownership.acquire(force).
AcquireLook(c) ==
  /\ At(c, "look")
  /\ nextLease' = nextLease + 1
  /\ call' = [call EXCEPT ![c].step = "take", ![c].lease = nextLease]
  /\ Own!Look(c, call[c].task)
  /\ UNCHANGED <<workerVars, lease, byTask, lock>>

\* Its second section.
AcquireTake(c) ==
  /\ At(c, "take")
  /\ Own!Take(c, call[c].task, call[c].worker, call[c].lease)
  /\ Goto(c, "insert")
  /\ UNCHANGED <<workerVars, leaseVars>>

Insert(c) ==
  /\ At(c, "insert") /\ lock = None
  /\ lease' = [lease EXCEPT ![call[c].lease] =
       [worker |-> call[c].worker, task |-> call[c].task, life |-> "active", over |-> FALSE]]
  /\ Goto(c, "index")
  /\ UNCHANGED <<workerVars, nextLease, byTask, lock, state, tokens, copy>>

\* Mutant: the index is not brought up to date.
Index_M(c) ==
  /\ At(c, "index") /\ Goto(c, "assign")
  /\ UNCHANGED <<workerVars, leaseVars, state, tokens, copy>>
Index(c) ==
  /\ At(c, "index")
  /\ byTask' = [byTask EXCEPT ![call[c].task] = call[c].lease]
  /\ Goto(c, "assign")
  /\ UNCHANGED <<workerVars, lease, nextLease, lock, state, tokens, copy>>

\* The worker's state, when it has one, names the lease; the call returns.
Assign(c) ==
  /\ At(c, "assign")
  /\ active' = [active EXCEPT ![call[c].worker] =
       IF life[call[c].worker] = "absent" THEN @ ELSE call[c].lease]
  /\ Done(c)
  /\ UNCHANGED <<life, beat, leaseVars, state, tokens, copy>>

-------------------------------------------------------------------------------
\* renew_lease, release_lease, expiry.

\* renew_lease: refused for a lease that ended; one past its time is marked Expired.
\* A renewal moves last_renewed, which no expiry looks at.
Renew(l) ==
  /\ lock = None /\ IsLive(l) /\ lease[l].over
  /\ lease' = [lease EXCEPT ![l].life = "expired"]
  /\ UNCHANGED <<workerVars, nextLease, byTask, lock, call, state, tokens, copy>>

\* Time: lease l, counted from acquired_at, is past max_duration.
Expire(l) ==
  /\ IsLive(l) /\ ~lease[l].over
  /\ lease' = [lease EXCEPT ![l].over = TRUE]
  /\ UNCHANGED <<workerVars, nextLease, byTask, lock, call, state, tokens, copy>>

\* detect_expired_leases: all of them at once.
DetectExpired ==
  /\ lock = None
  /\ \E l \in LeaseIds : IsLive(l) /\ lease[l].over
  /\ lease' = [l \in LeaseIds |-> IF IsLive(l) /\ lease[l].over
                                  THEN [lease[l] EXCEPT !.life = "expired"] ELSE lease[l]]
  /\ UNCHANGED <<workerVars, nextLease, byTask, lock, call, state, tokens, copy>>

\* release_lease, first section: refused for a lease that ended.
ReleaseLease(c, l) ==
  /\ lock = None /\ IsLive(l)
  /\ lease' = [lease EXCEPT ![l].life = "released"]
  /\ Begin(c, "unindex", lease[l].worker, lease[l].task, l, None)
  /\ UNCHANGED <<workerVars, nextLease, byTask, lock, state, tokens, copy>>

\* The task leaves the index, whichever lease it names by now.
Unindex(c) ==
  /\ At(c, "unindex")
  /\ byTask' = [byTask EXCEPT ![call[c].task] = None]
  /\ Goto(c, "disown")
  /\ UNCHANGED <<workerVars, lease, nextLease, lock, state, tokens, copy>>

Disown(c) ==
  /\ At(c, "disown")
  /\ Own!Release(call[c].task, call[c].worker)
  /\ Goto(c, "clear")
  /\ UNCHANGED <<workerVars, leaseVars>>

ClearWorker(c) ==
  /\ At(c, "clear")
  /\ active' = [active EXCEPT ![call[c].worker] = None]
  /\ Done(c)
  /\ UNCHANGED <<life, beat, leaseVars, state, tokens, copy>>

-------------------------------------------------------------------------------
\* replace_worker, and the revoke_lease it calls.

\* Only a stale, released or replaced worker can be replaced.
Replaceable(w) == life[w] \in {"stale", "released", "replaced"}

\* The stale worker is marked; with an active lease the lock on the worker states is
\* dropped to revoke it, without one the new worker is registered at once.  Nobody
\* replaces a worker by itself.
Replace(c, w, n) ==
  /\ Replaceable(w) /\ n # w
  /\ IF active[w] = None
     THEN /\ life' = [life EXCEPT ![w] = Moved(w, "replaced"), ![n] = "active"]
          /\ beat' = [beat EXCEPT ![n] = "healthy"]
          /\ active' = [active EXCEPT ![n] = None]
          /\ At(c, "idle") /\ UNCHANGED call
     ELSE /\ life' = [life EXCEPT ![w] = Moved(w, "replaced")]
          /\ Begin(c, "revoke", w, None, active[w], n)
          /\ UNCHANGED <<beat, active>>
  /\ UNCHANGED <<leaseVars, state, tokens, copy>>

\* revoke_lease, with the lease map locked from here on; refused for one that ended.
RevokeLease(c) ==
  /\ At(c, "revoke") /\ lock = None
  /\ LET l == call[c].lease IN
     IF IsLive(l)
     THEN /\ lease' = [lease EXCEPT ![l].life = "revoked"]
          /\ lock' = c
          /\ Goto(c, "revokeIndex")
     ELSE Goto(c, "register") /\ UNCHANGED <<lease, lock>>
  /\ UNCHANGED <<workerVars, nextLease, byTask, state, tokens, copy>>

RevokeIndex(c) ==
  /\ At(c, "revokeIndex")
  /\ byTask' = [byTask EXCEPT ![lease[call[c].lease].task] = None]
  /\ Goto(c, "revokeWorker")
  /\ UNCHANGED <<workerVars, lease, nextLease, lock, state, tokens, copy>>

RevokeWorker(c) ==
  /\ At(c, "revokeWorker")
  /\ LET w == lease[call[c].lease].worker IN
     /\ life' = [life EXCEPT ![w] = Moved(w, "replaced")]
     /\ active' = [active EXCEPT ![w] = None]
  /\ lock' = None
  /\ Goto(c, "register")
  /\ UNCHANGED <<beat, lease, nextLease, byTask, state, tokens, copy>>

RegisterNew(c) ==
  /\ At(c, "register")
  /\ life' = [life EXCEPT ![call[c].new] = "active"]
  /\ beat' = [beat EXCEPT ![call[c].new] = "healthy"]
  /\ active' = [active EXCEPT ![call[c].new] = None]
  /\ Done(c)
  /\ UNCHANGED <<leaseVars, state, tokens, copy>>

-------------------------------------------------------------------------------
Step(c) ==
  \/ Lookup(c) \/ RevokeOld(c) \/ AcquireLook(c) \/ AcquireTake(c)
  \/ Insert(c) \/ Index(c) \/ Assign(c)
  \/ Unindex(c) \/ Disown(c) \/ ClearWorker(c)
  \/ RevokeLease(c) \/ RevokeIndex(c) \/ RevokeWorker(c) \/ RegisterNew(c)

Next ==
  \/ \E w \in Workers : Register(w) \/ Unregister(w) \/ Tick(w)
  \/ \E w \in Workers, l \in LeaseIds \union {None} : HeartbeatOf(w, l)
  \/ UpdateHealth \/ DetectExpired
  \/ \E l \in LeaseIds : Renew(l) \/ Expire(l)
  \/ \E c \in Clients, w \in Workers, t \in Tasks : t \in Serves[c] /\ CreateLease(c, w, t)
  \/ \E c \in Clients, l \in LeaseIds :
       lease[l] # None /\ lease[l].task \in Serves[c] /\ ReleaseLease(c, l)
  \/ \E c \in Replacers, w, n \in Workers : Replace(c, w, n)
  \/ \E c \in Clients : Step(c)

Spec == Init /\ [][Next]_vars

-------------------------------------------------------------------------------
(***************************************************************************)
(* Properties.                                                             *)
(***************************************************************************)
Creating(c, t)  == call[c].step \in Steps /\ call[c].task = t
Quiet(t)        == \A c \in Clients : ~Creating(c, t)
LiveLeases(t)   == {l \in LeaseIds : IsLive(l) /\ lease[l].task = t}

\* A task never has two leases that are valid at once, although create_lease looks the
\* old one up, revokes it and inserts the new one in sections of their own, with
\* expiry, revocation and replacement in between (manager.rs:151-200).
OneActiveLease == \A t \in Tasks : Cardinality(LiveLeases(t)) <= 1

\* Between the calls that create or release a lease of a task, a valid lease is the one
\* the index names, its worker owns the task, and the owner's token is for that lease:
\* three maps under three locks, each written in a section of its own.
LeaseMapsAgree ==
  \A t \in Tasks : Quiet(t) => \A l \in LiveLeases(t) :
    /\ byTask[t] = l
    /\ Own!IsOwner(t, lease[l].worker)
    /\ state[t].token.lease = l

\* The ownership register stays consistent when leases take and give up tasks.
TokensAgree == Own!TokensAgree

\* A worker that was replaced sends heartbeats in vain: only registering it anew makes
\* it operational again (manager.rs:88-93, 330).
ReplacedIsOut ==
  [][\A w \in Workers : life[w] = "replaced" /\ life'[w] # "replaced" =>
       /\ life'[w] = "active" /\ active'[w] = None]_vars

================================================================================
