------------------------------ MODULE Leases_proof ------------------------------
(***************************************************************************)
(* Proofs about task leases and the ownership register below them.  TLC    *)
(* checks one client that leases one task and two leases; here clients,    *)
(* tasks, workers and leases are arbitrary, and the clients may share      *)
(* tasks where a theorem does not exclude it.                              *)
(***************************************************************************)
EXTENDS Leases, FiniteSetTheorems, TLAPS

\* Rust's None is none of the owners, tokens and states there are.
NoneIsNothing == None \notin Workers \union Own!TokenType \union Own!StateType

\* None is no lease and no client, and the number of clients is finite.
Sane == None \notin LeaseType \union Clients /\ IsFiniteSet(Clients) /\ NoneIsNothing

Creates  == {"lookup", "revokeOld", "look", "take", "insert", "index", "assign"}
Releases == {"unindex", "disown", "clear"}

\* What the maps and the calls hold, apart from the register.
Shape ==
  /\ lease \in [LeaseIds -> LeaseType \union {None}]
  /\ nextLease \in Nat /\ nextLease >= 1
  /\ byTask \in [Tasks -> LeaseIds \union {None}]
  /\ active \in [Workers -> LeaseIds \union {None}]
  /\ call \in [Clients -> CallType]

\* Each step of a call has what it works on: a task, a lease id that exists, a lease
\* that was inserted; and the index names inserted leases only.
OfTask(x) == x.step \in Creates \union Releases => x.task \in Tasks
OfLease(x, map) ==
  /\ x.step \in {"take", "insert", "index", "assign", "revokeOld"} => x.lease \in LeaseIds
  /\ x.step \in {"index", "revokeOld"} => map[x.lease] # None
Grounded ==
  /\ \A t \in Tasks : byTask[t] # None => lease[byTask[t]] # None
  /\ \A c \in Clients : OfTask(call[c]) /\ OfLease(call[c], lease)

\* Every call that has not taken its id finds one.
Room == nextLease + Cardinality(Unnumbered) <= MaxLeases + 1

IInv == Shape /\ Grounded /\ Room

---------------------------------------------------------------------------
\* Nobody but c makes a step of a call.
OnlyCall(c) == \A d \in Clients \ {c} : call'[d] = call[d]

\* A call goes on.
LEMMA GotoFacts ==
  ASSUME Shape, NEW c \in Clients, NEW s \in Steps, call[c] # Idle, Goto(c, s)
  PROVE  /\ call' \in [Clients -> CallType]
         /\ call'[c].step = s /\ call'[c].task = call[c].task /\ call'[c].lease = call[c].lease
         /\ call'[c].worker = call[c].worker
         /\ OnlyCall(c)
<1>1. call[c] \in [step : Steps, worker : Workers, task : Tasks \union {None},
                   lease : LeaseIds \union {None}, new : Workers \union {None}]
  BY DEF Shape, CallType
<1>2. call' = [call EXCEPT ![c] = [call[c] EXCEPT !.step = s]]
  BY DEF Goto
<1> QED
  BY <1>1, <1>2 DEF Shape, CallType, OnlyCall

\* A call at some step is under way.
LEMMA NotIdle ==
  ASSUME Shape, NEW c \in Clients, call[c].step \in Steps
  PROVE  call[c] # Idle
  BY DEF Steps, Idle

\* A call ends.
LEMMA DoneFacts ==
  ASSUME Shape, NEW c \in Clients, Done(c)
  PROVE  /\ call' \in [Clients -> CallType] /\ call'[c].step = "idle"
         /\ OnlyCall(c)
  BY DEF Done, Shape, CallType, Idle, OnlyCall

\* A call begins.
LEMMA BeginFacts ==
  ASSUME Shape, NEW c \in Clients, NEW s \in Steps, NEW w \in Workers,
         NEW t \in Tasks \union {None}, NEW l \in LeaseIds \union {None},
         NEW n \in Workers \union {None}, Begin(c, s, w, t, l, n)
  PROVE  /\ call' \in [Clients -> CallType]
         /\ call'[c].step = s /\ call'[c].task = t /\ call'[c].lease = l
         /\ call[c].step = "idle"
         /\ OnlyCall(c)
  BY DEF Begin, At, Shape, CallType, OnlyCall

---------------------------------------------------------------------------
\* Leases only appear.
Growing == \A l \in LeaseIds : lease[l] # None => lease'[l] # None

\* A step that makes no call and touches no index keeps what the calls have.
LEMMA WorkersKeep ==
  ASSUME IInv, Growing, UNCHANGED <<nextLease, byTask, call>>,
         lease' \in [LeaseIds -> LeaseType \union {None}],
         active' \in [Workers -> LeaseIds \union {None}]
  PROVE  IInv'
<1>1. Shape'
  BY DEF IInv, Shape
<1>2. Grounded'
  BY DEF IInv, Shape, Grounded, Growing, OfTask, OfLease
<1>3. Room'
  BY DEF IInv, Room, Unnumbered
<1> QED
  BY <1>1, <1>2, <1>3 DEF IInv

\* The index keeps or loses an entry, or names an inserted lease.
IndexGrounded ==
  \A t \in Tasks : \/ byTask'[t] \in {None, byTask[t]}
                   \/ byTask'[t] \in LeaseIds /\ lease'[byTask'[t]] # None

StepGrounded(c) == OfTask(call'[c]) /\ OfLease(call'[c], lease')

\* A step of client c keeps what the others have, if c has what it needs then.
LEMMA ClientKeeps ==
  ASSUME IInv, Growing, IndexGrounded, NEW c \in Clients, OnlyCall(c), StepGrounded(c)
  PROVE  Grounded'
<1>1. ASSUME NEW d \in Clients PROVE OfTask(call'[d]) /\ OfLease(call'[d], lease')
  BY DEF IInv, Grounded, Growing, OfTask, OfLease, OnlyCall, StepGrounded
<1>2. ASSUME NEW t \in Tasks, byTask'[t] # None PROVE lease'[byTask'[t]] # None
  BY <1>2 DEF IInv, Shape, Grounded, Growing, IndexGrounded
<1> QED
  BY <1>1, <1>2 DEF Grounded

\* What the steps of calls do to the maps.
MapsGrow ==
  /\ Growing /\ IndexGrounded /\ UNCHANGED nextLease
  /\ lease' \in [LeaseIds -> LeaseType \union {None}]
  /\ byTask' \in [Tasks -> LeaseIds \union {None}]
  /\ active' \in [Workers -> LeaseIds \union {None}]

\* A step that changes none of the maps.
LEMMA MapsSame ==
  ASSUME IInv, UNCHANGED <<lease, nextLease, byTask, active>> PROVE MapsGrow
  BY DEF IInv, Shape, MapsGrow, Growing, IndexGrounded

\* Numbers: the calls without an id, and what a step does to their number.
LEMMA Counting ==
  ASSUME Sane
  PROVE  /\ IsFiniteSet(Unnumbered) /\ Cardinality(Unnumbered) \in Nat
         /\ IsFiniteSet(Unnumbered') /\ Cardinality(Unnumbered') \in Nat
<1>1. Unnumbered \subseteq Clients /\ Unnumbered' \subseteq Clients
  BY DEF Unnumbered
<1> QED
  BY <1>1, FS_Subset, FS_CardinalityType DEF Sane

\* A step that is not the beginning of create_lease and takes no id.
LEMMA RoomKept ==
  ASSUME Sane, IInv, UNCHANGED nextLease, Unnumbered' \subseteq Unnumbered
  PROVE  Room'
<1>1. Cardinality(Unnumbered') <= Cardinality(Unnumbered)
  BY Counting, FS_Subset
<1>2. MaxLeases \in Nat
  BY LeasesAssumption
<1> QED
  BY <1>1, <1>2, Counting DEF IInv, Shape, Room

\* A later step of a call does not make it one without an id.
LEMMA UnnumberedShrinks ==
  ASSUME NEW c \in Clients, OnlyCall(c),
         call'[c].step \in {"lookup", "revokeOld", "look"} =>
           call[c].step \in {"lookup", "revokeOld", "look"}
  PROVE  Unnumbered' \subseteq Unnumbered
  BY DEF Unnumbered, OnlyCall

---------------------------------------------------------------------------
\* Operations on workers and the passing of time.
LEMMA WorkerSteps ==
  ASSUME Sane, IInv,
         \/ \E w \in Workers : Register(w) \/ Unregister(w) \/ Tick(w)
         \/ \E w \in Workers, l \in LeaseIds \union {None} : HeartbeatOf(w, l)
         \/ UpdateHealth \/ DetectExpired
         \/ \E l \in LeaseIds : Renew(l) \/ Expire(l)
  PROVE  IInv'
<1>1. ASSUME NEW w \in Workers, Register(w) \/ Unregister(w) \/ Tick(w) PROVE IInv'
  <2>1. UNCHANGED <<nextLease, byTask, call, lease>>
    BY <1>1 DEF Register, Unregister, Tick, leaseVars
  <2>2. active' \in [Workers -> LeaseIds \union {None}]
    BY <1>1 DEF Register, Unregister, Tick, IInv, Shape
  <2> QED
    BY <2>1, <2>2, WorkersKeep DEF Growing, IInv, Shape
<1>2. ASSUME NEW w \in Workers, NEW l \in LeaseIds \union {None}, HeartbeatOf(w, l) PROVE IInv'
  <2>1. UNCHANGED <<nextLease, byTask, call, lease>>
    BY <1>2 DEF HeartbeatOf, leaseVars
  <2>2. active' \in [Workers -> LeaseIds \union {None}]
    BY <1>2 DEF HeartbeatOf, IInv, Shape
  <2> QED
    BY <2>1, <2>2, WorkersKeep DEF Growing, IInv, Shape
<1>3. CASE UpdateHealth
  BY <1>3, WorkersKeep DEF UpdateHealth, leaseVars, Growing, IInv, Shape
<1>4. CASE DetectExpired
  <2>1. ASSUME NEW l \in LeaseIds, IsLive(l)
        PROVE  [lease[l] EXCEPT !.life = "expired"] \in LeaseType
    BY <2>1 DEF IsLive, IInv, Shape, LeaseType, Terminal
  <2>2. lease' \in [LeaseIds -> LeaseType \union {None}] /\ Growing
    BY <1>4, <2>1 DEF DetectExpired, Growing, Sane, IInv, Shape
  <2> QED
    BY <1>4, <2>2, WorkersKeep DEF DetectExpired, workerVars, IInv, Shape
<1>5. ASSUME NEW l \in LeaseIds, Renew(l) \/ Expire(l) PROVE IInv'
  <2>1. PICK r \in LeaseType : lease' = [lease EXCEPT ![l] = r]
    <3>1. lease[l] \in LeaseType
      BY <1>5 DEF Renew, Expire, IsLive, IInv, Shape
    <3>2. /\ [lease[l] EXCEPT !.life = "expired"] \in LeaseType
          /\ [lease[l] EXCEPT !.over = TRUE] \in LeaseType
      BY <3>1 DEF LeaseType, Terminal
    <3>3. \/ lease' = [lease EXCEPT ![l] = [lease[l] EXCEPT !.life = "expired"]]
          \/ lease' = [lease EXCEPT ![l] = [lease[l] EXCEPT !.over = TRUE]]
      BY <1>5 DEF Renew, Expire
    <3> QED
      BY <3>2, <3>3
  <2>2. lease' \in [LeaseIds -> LeaseType \union {None}] /\ Growing
    BY <2>1 DEF Growing, Sane, IInv, Shape
  <2> QED
    BY <1>5, <2>2, WorkersKeep DEF Renew, Expire, workerVars, IInv, Shape
<1> QED
  BY <1>1, <1>2, <1>3, <1>4, <1>5

---------------------------------------------------------------------------
\* Calls begin.
LEMMA BeginSteps ==
  ASSUME Sane, IInv, NEW c \in Clients,
         \/ \E w \in Workers, t \in Tasks : CreateLease(c, w, t)
         \/ \E l \in LeaseIds : ReleaseLease(c, l)
         \/ \E w, n \in Workers : Replace(c, w, n)
  PROVE  IInv'
<1> USE DEF IInv
<1>1. ASSUME NEW w \in Workers, NEW t \in Tasks, CreateLease(c, w, t) PROVE IInv'
  <2>1. Begin(c, "lookup", w, t, None, None) /\ UNCHANGED <<lease, nextLease, byTask, active>>
    BY <1>1 DEF CreateLease, leaseVars, workerVars
  <2>2. /\ call' \in [Clients -> CallType]
        /\ call'[c].step = "lookup" /\ call'[c].task = t
        /\ OnlyCall(c)
    BY <2>1, BeginFacts DEF Steps
  <2>6. MapsGrow
    BY <2>1, MapsSame
  <2>7. StepGrounded(c)
    BY <2>2 DEF StepGrounded, OfTask, OfLease
  <2>3. Grounded'
    BY <2>2, <2>6, <2>7, ClientKeeps DEF MapsGrow
  <2>4. Room'
    <3>1. Unnumbered' \subseteq Unnumbered \union {c}
      BY <2>2 DEF Unnumbered, OnlyCall
    <3>2. /\ IsFiniteSet(Unnumbered \union {c}) /\ Cardinality(Unnumbered \union {c}) \in Nat
          /\ Cardinality(Unnumbered \union {c}) <= Cardinality(Unnumbered) + 1
      <4>1. IsFiniteSet(Unnumbered) /\ Cardinality(Unnumbered) \in Nat
        BY Counting
      <4>2. /\ IsFiniteSet(Unnumbered \union {c})
            /\ Cardinality(Unnumbered \union {c}) =
                 IF c \in Unnumbered THEN Cardinality(Unnumbered) ELSE Cardinality(Unnumbered) + 1
        BY <4>1, FS_AddElement
      <4> QED
        BY <4>1, <4>2
    <3>3. Cardinality(Unnumbered') <= Cardinality(Unnumbered) + 1
      BY <3>1, <3>2, Counting, FS_Subset
    <3>4. nextLease + Cardinality(Unnumbered) <= MaxLeases
      BY <1>1 DEF CreateLease
    <3> QED
      BY <2>1, <3>3, <3>4, Counting, LeasesAssumption DEF Room, Shape
  <2>5. Shape'
    BY <2>1, <2>2 DEF Shape
  <2> QED
    BY <2>3, <2>4, <2>5
<1>2. ASSUME NEW l \in LeaseIds, ReleaseLease(c, l) PROVE IInv'
  <2>1. lease[l] \in LeaseType /\ lease[l].worker \in Workers /\ lease[l].task \in Tasks
    BY <1>2 DEF ReleaseLease, IsLive, Shape, LeaseType
  <2>2. /\ lease' = [lease EXCEPT ![l] = [lease[l] EXCEPT !.life = "released"]]
        /\ UNCHANGED <<nextLease, byTask, active>>
    BY <1>2 DEF ReleaseLease, workerVars
  <2>3. [lease[l] EXCEPT !.life = "released"] \in LeaseType
    BY <2>1 DEF LeaseType, Terminal
  <2>4. Growing /\ lease' \in [LeaseIds -> LeaseType \union {None}]
    BY <2>2, <2>3 DEF Growing, Sane, Shape
  <2>5. Begin(c, "unindex", lease[l].worker, lease[l].task, l, None)
    BY <1>2 DEF ReleaseLease
  <2>6. /\ call' \in [Clients -> CallType]
        /\ call'[c].step = "unindex" /\ call'[c].task = lease[l].task
        /\ OnlyCall(c)
    BY <2>1, <2>5, BeginFacts DEF Steps
  <2>7. Grounded'
    <3>1. IndexGrounded
      BY <2>2 DEF IndexGrounded
    <3>2. StepGrounded(c)
      BY <2>1, <2>6 DEF StepGrounded, OfTask, OfLease
    <3> QED
      BY <2>4, <2>6, <3>1, <3>2, ClientKeeps
  <2>8. Room'
    BY <2>2, <2>6, UnnumberedShrinks, RoomKept
  <2> QED
    BY <2>2, <2>4, <2>6, <2>7, <2>8 DEF Shape
<1>3. ASSUME NEW w \in Workers, NEW n \in Workers, Replace(c, w, n) PROVE IInv'
  <2>1. UNCHANGED <<lease, nextLease, byTask>>
    BY <1>3 DEF Replace, leaseVars
  <2>2. CASE UNCHANGED call /\ active' = [active EXCEPT ![n] = None]
    BY <2>1, <2>2, WorkersKeep DEF Growing, Shape
  <2>3. CASE Begin(c, "revoke", w, None, active[w], n) /\ UNCHANGED active
    <3>1. active[w] \in LeaseIds \union {None}
      BY DEF Shape
    <3>2. /\ call' \in [Clients -> CallType] /\ call'[c].step = "revoke"
          /\ OnlyCall(c)
      BY <2>3, <3>1, BeginFacts DEF Steps
    <3>3. Grounded'
      <4>1. MapsGrow
        BY <2>1, <2>3, MapsSame
      <4>2. StepGrounded(c)
        BY <3>2 DEF StepGrounded, OfTask, OfLease, Creates, Releases
      <4> QED
        BY <3>2, <4>1, <4>2, ClientKeeps DEF MapsGrow
    <3>4. Room'
      BY <2>1, <3>2, UnnumberedShrinks, RoomKept
    <3> QED
      BY <2>1, <2>3, <3>2, <3>3, <3>4 DEF Shape
  <2> QED
    BY <1>3, <2>2, <2>3 DEF Replace
<1> QED
  BY <1>1, <1>2, <1>3

---------------------------------------------------------------------------
\* What client c needs to go on to step s.
Ready(c, s) ==
  /\ s \in Creates \union Releases => call[c].task \in Tasks
  /\ s \in {"take", "insert", "index", "assign", "revokeOld"} => call[c].lease \in LeaseIds
  /\ s \in {"index", "revokeOld"} => lease'[call[c].lease] # None
  /\ s \in {"lookup", "revokeOld", "look"} =>
       call[c].step \in {"lookup", "revokeOld", "look"}

\* A step of a call that moves on to step s.
LEMMA MovesOn ==
  ASSUME Sane, IInv, NEW c \in Clients, NEW s \in Steps,
         call[c].step \in Steps, Goto(c, s), MapsGrow, Ready(c, s)
  PROVE  IInv'
<1>1. /\ call' \in [Clients -> CallType]
      /\ call'[c].step = s /\ call'[c].task = call[c].task /\ call'[c].lease = call[c].lease
      /\ OnlyCall(c)
  BY GotoFacts, NotIdle DEF IInv
<1>2. StepGrounded(c)
  BY <1>1 DEF Ready, StepGrounded, OfTask, OfLease
<1>3. Grounded'
  BY <1>1, <1>2, ClientKeeps DEF MapsGrow
<1>4. Room'
  BY <1>1, UnnumberedShrinks, RoomKept DEF MapsGrow, Ready
<1> QED
  BY <1>1, <1>3, <1>4 DEF IInv, Shape, MapsGrow

\* A call ends.
LEMMA Ends ==
  ASSUME Sane, IInv, NEW c \in Clients, Done(c), MapsGrow
  PROVE  IInv'
<1>1. call' \in [Clients -> CallType] /\ call'[c].step = "idle" /\ OnlyCall(c)
  BY DoneFacts DEF IInv
<1>2. StepGrounded(c)
  BY <1>1 DEF StepGrounded, OfTask, OfLease, Creates, Releases
<1>3. Grounded'
  BY <1>1, <1>2, ClientKeeps DEF MapsGrow
<1>4. Room'
  BY <1>1, UnnumberedShrinks, RoomKept DEF MapsGrow
<1> QED
  BY <1>1, <1>3, <1>4 DEF IInv, Shape, MapsGrow

\* What holds of the call c is making.
LEMMA Facts ==
  ASSUME IInv, NEW c \in Clients
  PROVE  /\ lease \in [LeaseIds -> LeaseType \union {None}]
         /\ byTask \in [Tasks -> LeaseIds \union {None}]
         /\ active \in [Workers -> LeaseIds \union {None}]
         /\ OfTask(call[c]) /\ OfLease(call[c], lease)
         /\ call[c].step \in Steps =>
              call[c] \in [step : Steps, worker : Workers, task : Tasks \union {None},
                          lease : LeaseIds \union {None}, new : Workers \union {None}]
  BY DEF IInv, Shape, Grounded, CallType, Idle, Steps

\* A step that changes at most one inserted lease, to a lease.
LEMMA LeaseChanged ==
  ASSUME Sane, IInv, NEW l \in LeaseIds, NEW r \in LeaseType,
         lease' = [lease EXCEPT ![l] = r], UNCHANGED <<nextLease, byTask, active>>
  PROVE  MapsGrow /\ lease'[l] # None
  BY DEF Sane, IInv, Shape, MapsGrow, Growing, IndexGrounded

\* The first section of create_lease.
LEMMA LookupStep ==
  ASSUME Sane, IInv, NEW c \in Clients, Lookup(c) PROVE IInv'
<1> DEFINE old == byTask[call[c].task]
           s == IF old = None THEN "look" ELSE "revokeOld"
<1>1. call[c].step = "lookup" /\ call[c].step \in Steps /\ call[c].task \in Tasks
  BY Facts DEF Lookup, At, OfTask, Creates, Steps
<1>2. /\ call' = [call EXCEPT ![c] = [call[c] EXCEPT !.step = s, !.lease = old]]
      /\ UNCHANGED <<lease, nextLease, byTask, active>>
  BY DEF Lookup, leaseVars, workerVars
<1>3. old \in LeaseIds \union {None} /\ (old # None => old \in LeaseIds /\ lease[old] # None)
  BY <1>1, Facts DEF IInv, Grounded
<1>4. s \in Steps /\ s \in {"look", "revokeOld"} /\ (s = "revokeOld" => old # None)
  BY DEF Steps
<1> HIDE DEF old, s
<1>5. /\ call' \in [Clients -> CallType]
      /\ call'[c].step = s /\ call'[c].task = call[c].task /\ call'[c].lease = old
      /\ OnlyCall(c)
  BY <1>1, <1>2, <1>3, <1>4, Facts DEF IInv, Shape, CallType, OnlyCall
<1>6. StepGrounded(c)
  BY <1>1, <1>2, <1>3, <1>4, <1>5 DEF StepGrounded, OfTask, OfLease
<1>7. MapsGrow
  BY <1>2, MapsSame
<1>8. Grounded'
  BY <1>5, <1>6, <1>7, ClientKeeps DEF MapsGrow
<1>9. Room'
  BY <1>1, <1>5, <1>7, UnnumberedShrinks, RoomKept DEF MapsGrow
<1> QED
  BY <1>5, <1>7, <1>8, <1>9 DEF IInv, Shape, MapsGrow

\* The lease gets its id.
LEMMA LookStep ==
  ASSUME Sane, IInv, NEW c \in Clients, AcquireLook(c) PROVE IInv'
<1>1. /\ call[c].step = "look" /\ call[c].step \in Steps
      /\ c \in Unnumbered /\ call[c].task \in Tasks
  BY Facts DEF AcquireLook, At, Unnumbered, OfTask, Creates, Steps
<1>2. Cardinality(Unnumbered) >= 1 /\ Cardinality(Unnumbered) \in Nat
  <2>1. Cardinality(Unnumbered) # 0
    BY <1>1, Counting, FS_EmptySet
  <2> QED
    BY <2>1, Counting
<1>3. nextLease \in LeaseIds
  <2>1. nextLease \in Nat /\ nextLease >= 1 /\ nextLease + Cardinality(Unnumbered) <= MaxLeases + 1
    BY DEF IInv, Shape, Room
  <2> QED
    BY <1>2, <2>1, LeasesAssumption DEF LeaseIds
<1>4. /\ nextLease' = nextLease + 1
      /\ call' = [call EXCEPT ![c] = [call[c] EXCEPT !.step = "take", !.lease = nextLease]]
      /\ UNCHANGED <<lease, byTask, active>>
  BY DEF AcquireLook, workerVars
<1>5. /\ call' \in [Clients -> CallType]
      /\ call'[c].step = "take" /\ call'[c].task = call[c].task /\ call'[c].lease = nextLease
      /\ OnlyCall(c)
  <2>1. "take" \in Steps
    BY DEF Steps
  <2> QED
    BY <1>1, <1>3, <1>4, <2>1, Facts DEF IInv, Shape, CallType, OnlyCall
<1>6. StepGrounded(c)
  BY <1>1, <1>3, <1>5 DEF StepGrounded, OfTask, OfLease
<1>7. Growing /\ IndexGrounded
  BY <1>4 DEF Growing, IndexGrounded
<1>8. Grounded'
  BY <1>5, <1>6, <1>7, ClientKeeps
<1>9. Room'
  <2>1. Unnumbered' \subseteq Unnumbered \ {c}
    BY <1>5 DEF Unnumbered, OnlyCall
  <2>2. IsFiniteSet(Unnumbered \ {c}) /\ Cardinality(Unnumbered \ {c}) = Cardinality(Unnumbered) - 1
    BY <1>1, Counting, FS_RemoveElement
  <2>3. Cardinality(Unnumbered') <= Cardinality(Unnumbered) - 1
    BY <2>1, <2>2, FS_Subset
  <2> QED
    BY <1>4, <2>3, Counting, LeasesAssumption DEF IInv, Room, Shape
<1>10. Shape'
  <2>1. nextLease' \in Nat /\ nextLease' >= 1
    BY <1>4 DEF IInv, Shape
  <2> QED
    BY <1>4, <1>5, <2>1 DEF IInv, Shape
<1> QED
  BY <1>8, <1>9, <1>10 DEF IInv

\* Every section of a call.
LEMMA CallSteps ==
  ASSUME Sane, IInv, NEW c \in Clients, Step(c) PROVE IInv'
<1>0. /\ lease \in [LeaseIds -> LeaseType \union {None}]
      /\ byTask \in [Tasks -> LeaseIds \union {None}]
      /\ active \in [Workers -> LeaseIds \union {None}]
      /\ OfTask(call[c]) /\ OfLease(call[c], lease)
  BY Facts
<1>1. CASE Lookup(c)
  BY <1>1, LookupStep
<1>2. CASE RevokeOld(c)
  <2> DEFINE l == call[c].lease
             r == [lease[l] EXCEPT !.life = "revoked"]
  <2>1. call[c].step = "revokeOld" /\ l \in LeaseIds /\ lease[l] \in LeaseType /\ call[c].task \in Tasks
    BY <1>0, <1>2 DEF RevokeOld, At, OfLease, OfTask, Creates
  <2>2. r \in LeaseType
    BY <2>1 DEF LeaseType, Terminal
  <2>3. lease' = [lease EXCEPT ![l] = r] /\ UNCHANGED <<nextLease, byTask, active>> /\ Goto(c, "look")
    BY <1>2 DEF RevokeOld, workerVars
  <2> HIDE DEF l, r
  <2>4. MapsGrow
    BY <2>1, <2>2, <2>3, LeaseChanged
  <2>5. Ready(c, "look") /\ call[c].step \in Steps /\ "look" \in Steps
    BY <2>1 DEF Ready, Steps
  <2> QED
    BY <2>3, <2>4, <2>5, MovesOn
<1>3. CASE AcquireLook(c)
  BY <1>3, LookStep
<1>4. CASE AcquireTake(c)
  <2>1. call[c].step = "take" /\ Goto(c, "insert") /\ UNCHANGED <<lease, nextLease, byTask, active>>
    BY <1>4 DEF AcquireTake, At, leaseVars, workerVars
  <2>2. Ready(c, "insert") /\ call[c].step \in Steps /\ "insert" \in Steps
    BY <1>0, <2>1 DEF Ready, Steps, OfTask, OfLease, Creates
  <2> QED
    BY <2>1, <2>2, MapsSame, MovesOn
<1>5. CASE Insert(c)
  <2> DEFINE r == [worker |-> call[c].worker, task |-> call[c].task, life |-> "active", over |-> FALSE]
  <2>1. /\ call[c].step = "insert" /\ call[c].step \in Steps
        /\ call[c].lease \in LeaseIds /\ call[c].task \in Tasks
    BY <1>0, <1>5 DEF Insert, At, OfTask, OfLease, Creates, Steps
  <2>2. r \in LeaseType
    BY <2>1, Facts DEF LeaseType
  <2>3. /\ lease' = [lease EXCEPT ![call[c].lease] = r]
        /\ Goto(c, "index") /\ UNCHANGED <<nextLease, byTask, active>>
    BY <1>5 DEF Insert, workerVars
  <2> HIDE DEF r
  <2>4. MapsGrow /\ lease'[call[c].lease] # None
    BY <2>1, <2>2, <2>3, LeaseChanged
  <2>5. Ready(c, "index") /\ "index" \in Steps
    BY <2>1, <2>4 DEF Ready, Steps
  <2> QED
    BY <2>1, <2>3, <2>4, <2>5, MovesOn
<1>6. CASE Index(c)
  <2>1. /\ call[c].step = "index" /\ call[c].step \in Steps
        /\ call[c].task \in Tasks /\ call[c].lease \in LeaseIds /\ lease[call[c].lease] # None
    BY <1>0, <1>6 DEF Index, At, OfLease, OfTask, Creates, Steps
  <2>2. /\ byTask' = [byTask EXCEPT ![call[c].task] = call[c].lease]
        /\ Goto(c, "assign") /\ UNCHANGED <<lease, nextLease, active>>
    BY <1>6 DEF Index, workerVars
  <2>3. MapsGrow
    BY <1>0, <2>1, <2>2 DEF MapsGrow, Growing, IndexGrounded
  <2>4. Ready(c, "assign") /\ "assign" \in Steps
    BY <2>1 DEF Ready, Steps
  <2> QED
    BY <2>1, <2>2, <2>3, <2>4, MovesOn
<1>7. CASE Assign(c)
  <2>1. call[c].lease \in LeaseIds
    BY <1>0, <1>7 DEF Assign, At, OfLease
  <2>2. UNCHANGED <<lease, nextLease, byTask>> /\ active' \in [Workers -> LeaseIds \union {None}] /\ Done(c)
    BY <1>0, <1>7, <2>1 DEF Assign, leaseVars
  <2>3. MapsGrow
    BY <1>0, <2>2 DEF MapsGrow, Growing, IndexGrounded
  <2> QED
    BY <2>2, <2>3, Ends
<1>8. CASE Unindex(c)
  <2>1. /\ call[c].step = "unindex" /\ byTask' = [byTask EXCEPT ![call[c].task] = None]
        /\ Goto(c, "disown") /\ UNCHANGED <<lease, nextLease, active>>
    BY <1>8 DEF Unindex, At, workerVars
  <2>2. MapsGrow
    BY <1>0, <2>1 DEF MapsGrow, Growing, IndexGrounded
  <2>3. Ready(c, "disown") /\ call[c].step \in Steps /\ "disown" \in Steps
    BY <1>0, <2>1 DEF Ready, Steps, OfTask, Releases
  <2> QED
    BY <2>1, <2>2, <2>3, MovesOn
<1>9. CASE Disown(c)
  <2>1. call[c].step = "disown" /\ Goto(c, "clear") /\ UNCHANGED <<lease, nextLease, byTask, active>>
    BY <1>9 DEF Disown, At, leaseVars, workerVars
  <2>2. Ready(c, "clear") /\ call[c].step \in Steps /\ "clear" \in Steps
    BY <1>0, <2>1 DEF Ready, Steps, OfTask, Releases
  <2> QED
    BY <2>1, <2>2, MapsSame, MovesOn
<1>10. CASE ClearWorker(c)
  <2>1. UNCHANGED <<lease, nextLease, byTask>> /\ active' \in [Workers -> LeaseIds \union {None}] /\ Done(c)
    BY <1>0, <1>10 DEF ClearWorker, leaseVars
  <2>2. MapsGrow
    BY <1>0, <2>1 DEF MapsGrow, Growing, IndexGrounded
  <2> QED
    BY <2>1, <2>2, Ends
<1>11. CASE RevokeLease(c)
  <2> DEFINE l == call[c].lease
             r == [lease[l] EXCEPT !.life = "revoked"]
  <2>1. call[c].step = "revoke" /\ call[c].step \in Steps /\ UNCHANGED <<nextLease, byTask, active>>
    BY <1>11 DEF RevokeLease, At, workerVars, Steps
  <2>2. l \in LeaseIds \union {None}
    BY <2>1, Facts
  <2>3. Ready(c, "register") /\ Ready(c, "revokeIndex") /\ "revokeIndex" \in Steps /\ "register" \in Steps
    BY DEF Ready, Steps, Creates, Releases
  <2>4. CASE UNCHANGED lease /\ Goto(c, "register")
    BY <2>1, <2>3, <2>4, MapsSame, MovesOn
  <2>5. CASE lease' = [lease EXCEPT ![l] = r] /\ Goto(c, "revokeIndex") /\ IsLive(l)
    <3>1. MapsGrow
      <4>1. CASE l \in LeaseIds
        <5>1. r \in LeaseType
          BY <1>0, <2>5, <4>1 DEF IsLive, LeaseType, Terminal
        <5> HIDE DEF l, r
        <5> QED
          BY <2>1, <2>5, <4>1, <5>1, LeaseChanged
      <4>2. CASE l \notin LeaseIds
        <5>1. lease' = lease
          BY <1>0, <2>5, <4>2
        <5> QED
          BY <2>1, <5>1, MapsSame
      <4> QED
        BY <4>1, <4>2
    <3> QED
      BY <2>1, <2>3, <2>5, <3>1, MovesOn
  <2> QED
    BY <1>11, <2>4, <2>5 DEF RevokeLease
<1>12. CASE RevokeIndex(c)
  <2>1. /\ call[c].step = "revokeIndex" /\ \E t : byTask' = [byTask EXCEPT ![t] = None]
        /\ Goto(c, "revokeWorker") /\ UNCHANGED <<lease, nextLease, active>>
    BY <1>12 DEF RevokeIndex, At, workerVars
  <2>2. MapsGrow
    BY <1>0, <2>1 DEF MapsGrow, Growing, IndexGrounded
  <2>3. Ready(c, "revokeWorker") /\ call[c].step \in Steps /\ "revokeWorker" \in Steps
    BY <2>1 DEF Ready, Steps, Creates, Releases
  <2> QED
    BY <2>1, <2>2, <2>3, MovesOn
<1>13. CASE RevokeWorker(c)
  <2>1. /\ call[c].step = "revokeWorker" /\ \E w : active' = [active EXCEPT ![w] = None]
        /\ Goto(c, "register") /\ UNCHANGED <<lease, nextLease, byTask>>
    BY <1>13 DEF RevokeWorker, At
  <2>2. MapsGrow
    BY <1>0, <2>1 DEF MapsGrow, Growing, IndexGrounded
  <2>3. Ready(c, "register") /\ call[c].step \in Steps /\ "register" \in Steps
    BY <2>1 DEF Ready, Steps, Creates, Releases
  <2> QED
    BY <2>1, <2>2, <2>3, MovesOn
<1>14. CASE RegisterNew(c)
  <2>1. UNCHANGED <<lease, nextLease, byTask>> /\ active' \in [Workers -> LeaseIds \union {None}] /\ Done(c)
    BY <1>0, <1>14 DEF RegisterNew, leaseVars
  <2>2. MapsGrow
    BY <1>0, <2>1 DEF MapsGrow, Growing, IndexGrounded
  <2> QED
    BY <2>1, <2>2, Ends
<1> QED
  BY <1>1, <1>2, <1>3, <1>4, <1>5, <1>6, <1>7, <1>8, <1>9, <1>10, <1>11, <1>12, <1>13, <1>14
     DEF Step

\* Every step keeps what the calls work on.
LEMMA Inductive ==
  ASSUME Sane PROVE IInv /\ [Next]_vars => IInv'
<1> SUFFICES ASSUME IInv, [Next]_vars PROVE IInv'
  OBVIOUS
<1>1. CASE UNCHANGED vars
  BY <1>1, WorkersKeep DEF vars, workerVars, leaseVars, Growing, IInv, Shape
<1>2. Replacers \subseteq Clients
  BY LeasesAssumption
<1> QED
  BY <1>1, <1>2, WorkerSteps, BeginSteps, CallSteps DEF Next

\* Calls have what they work on and ids never run out, whatever overlaps.
THEOREM CallsGrounded == ASSUME Sane PROVE Spec => []IInv
<1>1. Init => IInv
  <2>1. SUFFICES ASSUME Init PROVE IInv
    OBVIOUS
  <2>2. Unnumbered = {}
    BY <2>1 DEF Init, Unnumbered, Idle
  <2>3. Room
    BY <2>1, <2>2, FS_EmptySet, LeasesAssumption DEF Init, Room
  <2>4. Shape
    BY <2>1 DEF Init, Shape, CallType
  <2>5. Grounded
    BY <2>1 DEF Init, Grounded, OfTask, OfLease, Idle, Creates, Releases
  <2> QED
    BY <2>3, <2>4, <2>5 DEF IInv
<1> QED
  BY <1>1, Inductive, PTL DEF Spec

---------------------------------------------------------------------------
(* The register by itself, where calls of acquire overlap at will *)

\* The entry acquire finds is a state, and the one of the task if it has one.
LEMMA EntryIsState ==
  ASSUME Own!OwnTypeOK, NEW t \in Tasks
  PROVE  Own!Entry(t) \in Own!StateType
  BY DEF Own!OwnTypeOK, Own!Entry, Own!Unowned, Own!StateType

\* States, tokens and the copies callers decide on keep their types through all
\* overlapping calls of acquire, release and revoke.
THEOREM OwnTypeCorrect == Own!OwnSpec => []Own!OwnTypeOK
<1>1. Own!OwnInit => Own!OwnTypeOK
  BY DEF Own!OwnInit, Own!OwnTypeOK
<1>2. Own!OwnTypeOK /\ [Own!OwnNext]_(Own!ownVars) => Own!OwnTypeOK'
  <2> SUFFICES ASSUME Own!OwnTypeOK, [Own!OwnNext]_(Own!ownVars) PROVE Own!OwnTypeOK'
    OBVIOUS
  <2>1. ASSUME NEW c \in Clients, NEW t \in Tasks, Own!Look(c, t) PROVE Own!OwnTypeOK'
    BY <2>1, EntryIsState DEF Own!Look, Own!OwnTypeOK
  <2>2. ASSUME NEW c \in Clients, NEW t \in Tasks, NEW o \in Workers,
               NEW l \in LeaseIds \union {None}, Own!Take(c, t, o, l)
        PROVE Own!OwnTypeOK'
    <3>1. Own!NextGeneration(c, t) \in Nat
      BY <2>2 DEF Own!Take, Own!OwnTypeOK, Own!StateType, Own!NextGeneration
    <3>2. Own!Token(o, Own!NextGeneration(c, t), l) \in Own!TokenType
      BY <3>1 DEF Own!Token, Own!TokenType
    <3> QED
      BY <2>2, <3>1, <3>2 DEF Own!Take, Own!OwnTypeOK, Own!StateType, Own!Token
  <2>3. ASSUME NEW c \in Clients, NEW o \in Workers, Own!Refuse(c, o) PROVE Own!OwnTypeOK'
    BY <2>3 DEF Own!Refuse, Own!OwnTypeOK
  <2>4. ASSUME NEW t \in Tasks, NEW o \in Workers, Own!Release(t, o) PROVE Own!OwnTypeOK'
    BY <2>4 DEF Own!Release, Own!IsOwner, Own!Unowned, Own!OwnTypeOK, Own!StateType
  <2>5. ASSUME NEW t \in Tasks, Own!Revoke(t) PROVE Own!OwnTypeOK'
    BY <2>5 DEF Own!Revoke, Own!Unowned, Own!OwnTypeOK, Own!StateType
  <2>6. CASE UNCHANGED Own!ownVars
    BY <2>6 DEF Own!ownVars, Own!OwnTypeOK
  <2> QED
    BY <2>1, <2>2, <2>3, <2>4, <2>5, <2>6 DEF Own!OwnNext
<1> QED
  BY <1>1, <1>2, PTL DEF Own!OwnSpec

\* The owner, the generation and the two copies of the token agree, although acquire
\* decides on a copy that may be out of date when it writes.
THEOREM TokensConsistent ==
  ASSUME NoneIsNothing PROVE Own!OwnSpec => []Own!TokensAgree
<1>1. Own!OwnInit => Own!TokensAgree
  BY DEF Own!OwnInit, Own!TokensAgree
<1>2. Own!OwnTypeOK /\ Own!TokensAgree /\ [Own!OwnNext]_(Own!ownVars) => Own!TokensAgree'
  <2> SUFFICES ASSUME Own!OwnTypeOK, Own!TokensAgree, [Own!OwnNext]_(Own!ownVars)
               PROVE  Own!TokensAgree'
    OBVIOUS
  <2> USE DEF Own!OwnTypeOK, Own!TokensAgree
  <2>1. ASSUME NEW c \in Clients, NEW t \in Tasks, Own!Look(c, t) PROVE Own!TokensAgree'
    BY <2>1, EntryIsState DEF Own!Look, Own!Entry, Own!Unowned
  <2>2. ASSUME NEW c \in Clients, NEW t \in Tasks, NEW o \in Workers,
               NEW l \in LeaseIds \union {None}, Own!Take(c, t, o, l)
        PROVE Own!TokensAgree'
    <3> DEFINE tok == Own!Token(o, Own!NextGeneration(c, t), l)
    <3>1. Own!NextGeneration(c, t) \in Nat
      BY <2>2 DEF Own!Take, Own!StateType, Own!NextGeneration
    <3>2. tok \in Own!TokenType /\ tok # None
      BY <3>1, NoneIsNothing DEF Own!Token, Own!TokenType, NoneIsNothing
    <3>3. [generation |-> tok.generation, owner |-> o, token |-> tok] # None
      BY <3>1, <3>2, NoneIsNothing DEF Own!Token, Own!StateType, NoneIsNothing
    <3>4. o # None
      BY NoneIsNothing DEF NoneIsNothing
    <3> QED
      BY <2>2, <3>2, <3>3, <3>4 DEF Own!Take, Own!Token
  <2>3. ASSUME NEW c \in Clients, NEW o \in Workers, Own!Refuse(c, o) PROVE Own!TokensAgree'
    BY <2>3 DEF Own!Refuse
  <2>4. ASSUME NEW t \in Tasks, NEW o \in Workers, Own!Release(t, o) PROVE Own!TokensAgree'
    BY <2>4 DEF Own!Release, Own!IsOwner, Own!Unowned
  <2>5. ASSUME NEW t \in Tasks, Own!Revoke(t) PROVE Own!TokensAgree'
    BY <2>5 DEF Own!Revoke, Own!Unowned
  <2>6. CASE UNCHANGED Own!ownVars
    BY <2>6 DEF Own!ownVars
  <2> QED
    BY <2>1, <2>2, <2>3, <2>4, <2>5, <2>6 DEF Own!OwnNext
<1> QED
  BY <1>1, <1>2, OwnTypeCorrect, PTL DEF Own!OwnSpec

\* A worker that was taken over cannot write with its token any more: the token the
\* owner was given validates, and every token that validates names the owner.
THEOREM StaleTokensRefused ==
  ASSUME NoneIsNothing PROVE Own!OwnSpec => []Own!OnlyOwnersValidate
<1>1. Own!OwnTypeOK /\ Own!TokensAgree => Own!OnlyOwnersValidate
  <2> SUFFICES ASSUME Own!OwnTypeOK, Own!TokensAgree, NEW t \in Tasks
               PROVE /\ tokens[t] # None => Own!Validates(t, tokens[t])
                     /\ \A o \in Workers, g \in Nat, l \in LeaseIds \union {None} :
                          Own!Validates(t, Own!Token(o, g, l)) =>
                            /\ tokens[t] # None /\ tokens[t].owner = o
                            /\ tokens[t].generation <= g
    BY DEF Own!OnlyOwnersValidate
  <2>1. tokens[t] # None => Own!Validates(t, tokens[t])
    BY DEF Own!OwnTypeOK, Own!TokensAgree, Own!Validates, Own!StateType
  <2>2. ASSUME NEW o \in Workers, NEW g \in Nat, NEW l \in LeaseIds \union {None},
               Own!Validates(t, Own!Token(o, g, l))
        PROVE /\ tokens[t] # None /\ tokens[t].owner = o
              /\ tokens[t].generation <= g
    <3>1. o # None
      BY NoneIsNothing DEF NoneIsNothing
    <3> QED
      BY <2>2, <3>1 DEF Own!OwnTypeOK, Own!TokensAgree, Own!Validates, Own!Token, Own!StateType
  <2> QED
    BY <2>1, <2>2
<1> QED
  BY <1>1, OwnTypeCorrect, TokensConsistent, PTL

---------------------------------------------------------------------------
\* What a step of a call does to the register: acquire's two sections, release, or
\* nothing at all.
LEMMA RegisterStep ==
  ASSUME Sane, IInv, [Next]_vars
  PROVE  [Own!OwnNext]_(Own!ownVars)
<1> USE DEF Own!OwnNext, Own!ownVars
<1>1. ASSUME NEW c \in Clients, AcquireLook(c) PROVE Own!OwnNext
  <2>1. call[c].task \in Tasks
    BY <1>1, Facts DEF AcquireLook, At, OfTask, Creates
  <2>2. Own!Look(c, call[c].task)
    BY <1>1 DEF AcquireLook, Own!Look, Own!Entry, Own!Unowned
  <2> QED
    BY <2>1, <2>2
<1>2. ASSUME NEW c \in Clients, AcquireTake(c) PROVE Own!OwnNext
  <2>1. /\ call[c].task \in Tasks /\ call[c].lease \in LeaseIds \union {None}
        /\ call[c].worker \in Workers
    BY <1>2, Facts DEF AcquireTake, At, OfTask, Creates, Steps
  <2>2. Own!Take(c, call[c].task, call[c].worker, call[c].lease)
    BY <1>2 DEF AcquireTake, Own!Take, Own!Token, Own!NextGeneration
  <2> QED
    BY <2>1, <2>2
<1>3. ASSUME NEW c \in Clients, Disown(c) PROVE Own!OwnNext
  <2>1. call[c].task \in Tasks /\ call[c].worker \in Workers
    BY <1>3, Facts DEF Disown, At, OfTask, Releases, Steps
  <2>2. Own!Release(call[c].task, call[c].worker)
    BY <1>3 DEF Disown, Own!Release, Own!IsOwner, Own!Unowned
  <2> QED
    BY <2>1, <2>2
<1>4. ASSUME NEW c \in Clients, Step(c)
      PROVE  AcquireLook(c) \/ AcquireTake(c) \/ Disown(c) \/ UNCHANGED Own!ownVars
  BY <1>4 DEF Step, Lookup, RevokeOld, Insert, Index, Assign, Unindex, ClearWorker,
              RevokeLease, RevokeIndex, RevokeWorker, RegisterNew
<1>5. ASSUME NEW w \in Workers, Register(w) \/ Unregister(w) \/ Tick(w)
      PROVE  UNCHANGED Own!ownVars
  BY <1>5 DEF Register, Unregister, Tick
<1>6. ASSUME NEW w \in Workers, NEW l \in LeaseIds \union {None}, HeartbeatOf(w, l)
      PROVE  UNCHANGED Own!ownVars
  BY <1>6 DEF HeartbeatOf
<1>7. ASSUME UpdateHealth \/ DetectExpired \/ UNCHANGED vars PROVE UNCHANGED Own!ownVars
  BY <1>7 DEF UpdateHealth, DetectExpired, vars
<1>8. ASSUME NEW l \in LeaseIds, Renew(l) \/ Expire(l) PROVE UNCHANGED Own!ownVars
  BY <1>8 DEF Renew, Expire
<1>9. ASSUME NEW c \in Clients, NEW w \in Workers, NEW t \in Tasks, CreateLease(c, w, t)
      PROVE  UNCHANGED Own!ownVars
  BY <1>9 DEF CreateLease
<1>10. ASSUME NEW c \in Clients, NEW l \in LeaseIds, ReleaseLease(c, l)
       PROVE  UNCHANGED Own!ownVars
  BY <1>10 DEF ReleaseLease
<1>11. ASSUME NEW c \in Replacers, NEW w \in Workers, NEW n \in Workers, Replace(c, w, n)
       PROVE  UNCHANGED Own!ownVars
  BY <1>11 DEF Replace
<1> HIDE DEF Own!OwnNext, Own!ownVars
<1> QED
  BY <1>1, <1>2, <1>3, <1>4, <1>5, <1>6, <1>7, <1>8, <1>9, <1>10, <1>11 DEF Next

\* The heartbeat manager uses the register as the register promises to be used: every
\* behaviour of the leases is one of the register alone, so that what holds of the
\* register for all overlapping callers holds of tasks taken and given up by leases.
THEOREM OwnershipImplemented == ASSUME Sane PROVE Spec => Own!OwnSpec
<1>1. Init => Own!OwnInit
  BY DEF Init, Own!OwnInit
<1> QED
  BY <1>1, RegisterStep, CallsGrounded, PTL DEF Spec, Own!OwnSpec

\* The owner, the generation and both copies of the token of a task agree while leases
\* are created, revoked and released by any number of clients at once.
THEOREM LeasesKeepTokens == ASSUME Sane PROVE Spec => []TokensAgree
<1>1. Own!OwnSpec => []Own!TokensAgree
  BY TokensConsistent DEF Sane
<1>2. Own!TokensAgree => TokensAgree
  BY DEF Own!TokensAgree, TokensAgree
<1> QED
  BY <1>1, <1>2, OwnershipImplemented, PTL

---------------------------------------------------------------------------
LifeOK == life \in [Workers -> Lifecycles]

Out(w) == life[w] = "replaced" /\ life'[w] # "replaced" => life'[w] = "active" /\ active'[w] = None

\* A move allowed by the table, or none, and none at all from "replaced".
LEMMA MovedFacts ==
  ASSUME LifeOK, NEW w \in Workers, NEW target \in Lifecycles
  PROVE  Moved(w, target) \in Lifecycles /\ (life[w] = "replaced" => Moved(w, target) = "replaced")
  BY DEF LifeOK, Moved, ValidTransitions

\* Every step keeps the lifecycles, and the replaced workers out.
LEMMA LifeStep ==
  ASSUME IInv, LifeOK, [Next]_vars
  PROVE  LifeOK' /\ \A w \in Workers : Out(w)
<1> USE DEF LifeOK, Out
<1>0. active \in [Workers -> LeaseIds \union {None}] /\ Operational \subseteq Lifecycles
      /\ {"active", "released", "replaced"} \subseteq Lifecycles
  BY DEF IInv, Shape, Lifecycles, Operational
<1>1. ASSUME UNCHANGED life PROVE LifeOK' /\ \A w \in Workers : Out(w)
  BY <1>1
<1>2. ASSUME NEW w \in Workers, Register(w)
      PROVE  LifeOK' /\ \A x \in Workers : Out(x)
  BY <1>0, <1>2 DEF Register
<1>3. ASSUME NEW w \in Workers, Unregister(w)
      PROVE  LifeOK' /\ \A x \in Workers : Out(x)
  BY <1>0, <1>3, MovedFacts DEF Unregister
<1>4. ASSUME NEW w \in Workers, NEW l \in LeaseIds \union {None}, HeartbeatOf(w, l)
      PROVE  LifeOK' /\ \A x \in Workers : Out(x)
  <2>1. life[w] # "replaced"
    BY <1>4 DEF HeartbeatOf, Operational
  <2>2. PICK v \in Lifecycles : life' = [life EXCEPT ![w] = v]
    BY <1>0, <1>4, MovedFacts DEF HeartbeatOf
  <2> QED
    BY <2>1, <2>2
<1>5. CASE UpdateHealth
  <2>1. ASSUME NEW w \in Workers
        PROVE  /\ Moved(w, HealthTarget(beat[w])) \in Lifecycles
               /\ life[w] = "replaced" => Moved(w, HealthTarget(beat[w])) = "replaced"
    BY DEF Moved, ValidTransitions, Lifecycles, Operational
  <2> QED
    BY <1>5, <2>1 DEF UpdateHealth
<1>6. ASSUME NEW c \in Replacers, NEW w \in Workers, NEW n \in Workers, Replace(c, w, n)
      PROVE  LifeOK' /\ \A x \in Workers : Out(x)
  <2>1. PICK v \in Lifecycles : v = Moved(w, "replaced")
    BY <1>0, MovedFacts
  <2>2. life[w] = "replaced" => v = "replaced"
    BY <1>0, <2>1, MovedFacts
  <2>3. \/ /\ life' = [life EXCEPT ![w] = v, ![n] = "active"]
           /\ active' = [active EXCEPT ![n] = None]
        \/ life' = [life EXCEPT ![w] = v]
    BY <1>6, <2>1 DEF Replace
  <2> QED
    BY <1>0, <2>2, <2>3
<1>7. ASSUME NEW c \in Clients, RevokeWorker(c)
      PROVE  LifeOK' /\ \A x \in Workers : Out(x)
  <2> DEFINE w == lease[call[c].lease].worker
  <2>1. life' = [life EXCEPT ![w] = Moved(w, "replaced")]
    BY <1>7 DEF RevokeWorker
  <2>2. w \in Workers => Moved(w, "replaced") = "replaced" \/ Moved(w, "replaced") = life[w]
    BY DEF Moved
  <2> HIDE DEF w
  <2> QED
    BY <1>0, <2>1, <2>2
<1>8. ASSUME NEW c \in Clients, RegisterNew(c)
      PROVE  LifeOK' /\ \A x \in Workers : Out(x)
  BY <1>0, <1>8 DEF RegisterNew
<1>9. ASSUME NEW c \in Clients, Step(c)
      PROVE  RevokeWorker(c) \/ RegisterNew(c) \/ UNCHANGED life
  BY <1>9 DEF Step, Lookup, RevokeOld, AcquireLook, AcquireTake, Insert, Index, Assign, Unindex,
              Disown, ClearWorker, RevokeLease, RevokeIndex, workerVars
<1>10. ASSUME NEW w \in Workers, Tick(w) PROVE UNCHANGED life
  BY <1>10 DEF Tick
<1>11. ASSUME DetectExpired \/ UNCHANGED vars PROVE UNCHANGED life
  BY <1>11 DEF DetectExpired, vars, workerVars
<1>12. ASSUME NEW l \in LeaseIds, Renew(l) \/ Expire(l) PROVE UNCHANGED life
  BY <1>12 DEF Renew, Expire, workerVars
<1>13. ASSUME NEW c \in Clients, NEW w \in Workers, NEW t \in Tasks, CreateLease(c, w, t)
       PROVE  UNCHANGED life
  BY <1>13 DEF CreateLease, workerVars
<1>14. ASSUME NEW c \in Clients, NEW l \in LeaseIds, ReleaseLease(c, l)
       PROVE  UNCHANGED life
  BY <1>14 DEF ReleaseLease, workerVars
<1> HIDE DEF LifeOK, Out
<1> QED
  BY <1>1, <1>2, <1>3, <1>4, <1>5, <1>6, <1>7, <1>8, <1>9, <1>10, <1>11, <1>12, <1>13, <1>14
     DEF Next

\* A replaced worker stays out: neither a heartbeat, nor its health, nor the end of a
\* lease brings it back, only a registration, which leaves it without a lease.
THEOREM ReplacedStaysOut == ASSUME Sane PROVE Spec => ReplacedIsOut
<1>1. Init => LifeOK
  BY DEF Init, LifeOK, Lifecycles
<1>2. IInv /\ LifeOK /\ [Next]_vars => LifeOK'
  BY LifeStep
<1>3. IInv /\ LifeOK /\ [Next]_vars =>
        [\A w \in Workers : life[w] = "replaced" /\ life'[w] # "replaced" =>
           /\ life'[w] = "active" /\ active'[w] = None]_vars
  BY LifeStep DEF Out
<1> QED
  BY <1>1, <1>2, <1>3, CallsGrounded, PTL DEF Spec, ReplacedIsOut

---------------------------------------------------------------------------
\* No two clients create or release leases of the same task.
Exclusive == \A c, d \in Clients : c # d => Serves[c] \cap Serves[d] = {}

Served(c) == call[c].step \in Creates \union Releases => call[c].task \in Serves[c]

\* Between the two sections of its acquire, the copy of c is of the current generation.
UpToDate(c) ==
  call[c].step = "take" =>
    /\ copy[c] # None /\ state[call[c].task] # None
    /\ copy[c].generation = state[call[c].task].generation

GInv == \A c \in Clients : Served(c) /\ UpToDate(c)

\* A section of a call other than the first of acquire leads to no "take", and a call
\* keeps its task.
LEMMA CallMoves ==
  ASSUME IInv, NEW c \in Clients, Step(c), ~AcquireLook(c)
  PROVE  /\ OnlyCall(c) /\ call'[c].step # "take"
         /\ call'[c].step \in Creates \union Releases =>
              /\ call[c].step \in Creates \union Releases
              /\ call'[c].task = call[c].task
<1> DEFINE Goal == /\ OnlyCall(c) /\ call'[c].step # "take"
                   /\ call'[c].step \in Creates \union Releases =>
                        /\ call[c].step \in Creates \union Releases
                        /\ call'[c].task = call[c].task
<1>1. ASSUME NEW s \in Steps \ {"take"}, call[c].step \in Steps, Goto(c, s),
             s \in Creates \union Releases => call[c].step \in Creates \union Releases
      PROVE  Goal
  BY <1>1, GotoFacts, NotIdle DEF IInv
<1>2. ASSUME Done(c) PROVE Goal
  BY <1>2, DoneFacts DEF IInv, Creates, Releases
<1>3. CASE Lookup(c)
  <2> DEFINE old == byTask[call[c].task]
             s == IF old = None THEN "look" ELSE "revokeOld"
  <2>1. call[c].step = "lookup" /\ call[c].step \in Steps
    BY <1>3 DEF Lookup, At, Steps
  <2>2. call' = [call EXCEPT ![c] = [call[c] EXCEPT !.step = s, !.lease = old]]
    BY <1>3 DEF Lookup
  <2>3. s \in {"look", "revokeOld"}
    OBVIOUS
  <2> HIDE DEF old, s
  <2> QED
    BY <2>1, <2>2, <2>3, Facts DEF IInv, Shape, OnlyCall, Creates
<1>4. CASE RevokeOld(c) \/ AcquireTake(c) \/ Insert(c) \/ Index(c)
  BY <1>1, <1>4 DEF RevokeOld, AcquireTake, Insert, Index, At, Steps, Creates
<1>5. CASE Unindex(c) \/ Disown(c)
  BY <1>1, <1>5 DEF Unindex, Disown, At, Steps, Releases
<1>6. CASE RevokeLease(c) \/ RevokeIndex(c) \/ RevokeWorker(c)
  BY <1>1, <1>6 DEF RevokeLease, RevokeIndex, RevokeWorker, At, Steps, Creates, Releases
<1>7. CASE Assign(c) \/ ClearWorker(c) \/ RegisterNew(c)
  BY <1>2, <1>7 DEF Assign, ClearWorker, RegisterNew
<1> QED
  BY <1>3, <1>4, <1>5, <1>6, <1>7 DEF Step

\* A step that leaves the register alone, and moves c as above.
LEMMA AsideKeeps ==
  ASSUME GInv, UNCHANGED <<state, tokens, copy>>, NEW c \in Clients, OnlyCall(c),
         call'[c].step # "take",
         call'[c].step \in Creates \union Releases => call'[c].task \in Serves[c]
  PROVE  GInv'
  BY DEF GInv, Served, UpToDate, OnlyCall

\* Every step keeps the copies up to date.
LEMMA CopiesStep ==
  ASSUME Sane, Exclusive, IInv, GInv, Own!OwnTypeOK, [Next]_vars
  PROVE  GInv'
<1> USE DEF Own!OwnTypeOK, Own!StateType, Own!TokenType
<1>2. ASSUME UNCHANGED <<state, tokens, copy, call>> PROVE GInv'
  BY <1>2 DEF GInv, Served, UpToDate
<1>3. ASSUME NEW c \in Clients, AcquireLook(c) PROVE GInv'
  <2> DEFINE t == call[c].task
             e == Own!Entry(t)
  <2>1. call[c].step = "look" /\ t \in Tasks /\ t \in Serves[c]
    BY <1>3, Facts DEF AcquireLook, At, OfTask, Creates, GInv, Served
  <2>2. /\ state' = [state EXCEPT ![t] = e] /\ copy' = [copy EXCEPT ![c] = e] /\ UNCHANGED tokens
    BY <1>3 DEF AcquireLook, Own!Look, Own!Entry, Own!Unowned
  <2>3. e # None /\ (state[t] # None => e = state[t])
    BY <2>1 DEF Own!Entry, Own!Unowned, Sane, NoneIsNothing
  <2>4. /\ call' = [call EXCEPT ![c] = [call[c] EXCEPT !.step = "take", !.lease = nextLease]]
    BY <1>3 DEF AcquireLook
  <2>5. call'[c].step = "take" /\ call'[c].task = t /\ OnlyCall(c)
    BY <2>1, <2>4, Facts DEF IInv, Shape, OnlyCall, Steps
  <2> HIDE DEF t, e
  <2>7. ASSUME NEW d \in Clients PROVE Served(d)' /\ UpToDate(d)'
    <3>1. CASE d = c
      BY <2>1, <2>2, <2>3, <2>5, <3>1 DEF Served, UpToDate
    <3>2. CASE d # c
      <4>1. call'[d] = call[d] /\ copy'[d] = copy[d] /\ Served(d) /\ UpToDate(d)
        BY <2>2, <2>5, <3>2 DEF OnlyCall, GInv
      <4>2. call[d].step = "take" => call[d].task # t /\ call[d].task \in Tasks
        BY <2>1, <3>2, <4>1, Facts DEF Exclusive, Served, Creates, OfTask
      <4> QED
        BY <2>2, <4>1, <4>2 DEF Served, UpToDate
    <3> QED
      BY <3>1, <3>2
  <2> QED
    BY <2>7 DEF GInv
<1>4. ASSUME NEW c \in Clients, AcquireTake(c) PROVE GInv'
  <2> DEFINE t == call[c].task
             g == copy[c].generation + 1
  <2>1. call[c].step = "take" /\ t \in Tasks /\ t \in Serves[c]
    BY <1>4, Facts DEF AcquireTake, At, OfTask, Creates, GInv, Served
  <2>2. state[t] # None /\ copy[c] # None /\ g = state[t].generation + 1 /\ g \in Nat
        /\ state[t].generation \in Nat
    BY <2>1 DEF GInv, UpToDate
  <2>3. PICK s, k : /\ state' = [state EXCEPT ![t] = s] /\ tokens' = [tokens EXCEPT ![t] = k]
                    /\ s.generation = g /\ k.generation = g
                    /\ copy' = [copy EXCEPT ![c] = None]
    BY <1>4 DEF AcquireTake, Own!Take, Own!Token, Own!NextGeneration
  <2>4. Step(c) /\ ~AcquireLook(c)
    BY <1>4 DEF Step, AcquireTake, AcquireLook, At
  <2>5. OnlyCall(c) /\ call'[c].step # "take" /\ Served(c)'
    BY <2>1, <2>4, CallMoves DEF Served
  <2> HIDE DEF t, g
  <2>7. ASSUME NEW d \in Clients PROVE Served(d)' /\ UpToDate(d)'
    <3>1. CASE d = c
      BY <2>5, <3>1 DEF UpToDate
    <3>2. CASE d # c
      <4>1. call'[d] = call[d] /\ copy'[d] = copy[d] /\ Served(d) /\ UpToDate(d)
        BY <2>3, <2>5, <3>2 DEF OnlyCall, GInv
      <4>2. call[d].step = "take" => call[d].task # t /\ call[d].task \in Tasks
        BY <2>1, <3>2, <4>1, Facts DEF Exclusive, Served, Creates, OfTask
      <4> QED
        BY <2>3, <4>1, <4>2 DEF Served, UpToDate
    <3> QED
      BY <3>1, <3>2
  <2> QED
    BY <2>7 DEF GInv
<1>5. ASSUME NEW c \in Clients, Disown(c) PROVE GInv'
  <2> DEFINE t == call[c].task
  <2>1. call[c].step = "disown" /\ t \in Tasks /\ t \in Serves[c]
    BY <1>5, Facts DEF Disown, At, OfTask, Releases, GInv, Served
  <2>2. UNCHANGED copy /\ \/ UNCHANGED <<state, tokens>>
                           \/ /\ state[t] # None
                              /\ state' = [state EXCEPT ![t] = Own!Unowned(@.generation)]
                              /\ tokens' = [tokens EXCEPT ![t] = None]
    BY <1>5 DEF Disown, Own!Release, Own!IsOwner, Own!Unowned
  <2>3. \A x \in Tasks : state[x] # None =>
          /\ state'[x] # None /\ state'[x].generation = state[x].generation
          /\ tokens'[x] \in {None, tokens[x]}
    BY <2>1, <2>2 DEF Own!Unowned, Sane, NoneIsNothing
  <2>4. Step(c) /\ ~AcquireLook(c)
    BY <1>5 DEF Step, Disown, AcquireLook, At
  <2>5. OnlyCall(c) /\ call'[c].step # "take" /\ Served(c)'
    BY <2>1, <2>4, CallMoves DEF Served
  <2> HIDE DEF t
  <2>7. ASSUME NEW d \in Clients PROVE Served(d)' /\ UpToDate(d)'
    <3>1. CASE d = c
      BY <2>5, <3>1 DEF UpToDate
    <3>2. CASE d # c
      <4>1. call'[d] = call[d] /\ copy'[d] = copy[d] /\ Served(d) /\ UpToDate(d)
        BY <2>2, <2>5, <3>2 DEF OnlyCall, GInv
      <4>2. call[d].step = "take" => call[d].task \in Tasks
        BY Facts DEF Creates, OfTask
      <4> QED
        BY <2>3, <4>1, <4>2 DEF Served, UpToDate
    <3> QED
      BY <3>1, <3>2
  <2> QED
    BY <2>7 DEF GInv
<1>6. ASSUME NEW c \in Clients, Step(c), UNCHANGED <<state, tokens, copy>>, ~AcquireLook(c)
      PROVE  GInv'
  <2>1. /\ OnlyCall(c) /\ call'[c].step # "take"
        /\ call'[c].step \in Creates \union Releases => call'[c].task \in Serves[c]
    BY <1>6, CallMoves DEF GInv, Served
  <2> QED
    BY <1>6, <2>1, AsideKeeps
<1>7. ASSUME NEW c \in Clients, Step(c)
      PROVE  \/ AcquireLook(c) \/ AcquireTake(c) \/ Disown(c)
             \/ UNCHANGED <<state, tokens, copy>> /\ ~AcquireLook(c)
  BY <1>7 DEF Step, Lookup, RevokeOld, Insert, Index, Assign, Unindex, ClearWorker,
              RevokeLease, RevokeIndex, RevokeWorker, RegisterNew
<1>8. ASSUME NEW c \in Clients, NEW w \in Workers, NEW t \in Tasks, t \in Serves[c],
             CreateLease(c, w, t)
      PROVE  GInv'
  <2>1. OnlyCall(c) /\ call'[c].step = "lookup" /\ call'[c].task = t
    <3>1. Begin(c, "lookup", w, t, None, None)
      BY <1>8 DEF CreateLease
    <3>2. "lookup" \in Steps
      BY DEF Steps
    <3> QED
      BY <3>1, <3>2, BeginFacts DEF IInv
  <2> QED
    BY <1>8, <2>1, AsideKeeps DEF CreateLease
<1>9. ASSUME NEW c \in Clients, NEW l \in LeaseIds, lease[l] # None, lease[l].task \in Serves[c],
             ReleaseLease(c, l)
      PROVE  GInv'
  <2>1. lease[l] \in LeaseType
    BY <1>9, Facts
  <2>2. OnlyCall(c) /\ call'[c].step = "unindex" /\ call'[c].task = lease[l].task
    BY <1>9, <2>1, BeginFacts DEF ReleaseLease, IInv, Steps, LeaseType
  <2> QED
    BY <1>9, <2>2, AsideKeeps DEF ReleaseLease
<1>10. ASSUME NEW c \in Replacers, NEW w \in Workers, NEW n \in Workers, Replace(c, w, n)
       PROVE  GInv'
  <2>1. UNCHANGED <<state, tokens, copy>> /\ c \in Clients
    BY <1>10, LeasesAssumption DEF Replace
  <2>2. CASE UNCHANGED call
    BY <1>2, <2>1, <2>2
  <2>3. CASE Begin(c, "revoke", w, None, active[w], n)
    <3>1. active[w] \in LeaseIds \union {None}
      BY DEF IInv, Shape
    <3>2. OnlyCall(c) /\ call'[c].step = "revoke"
      BY <2>1, <2>3, <3>1, BeginFacts DEF IInv, Steps
    <3> QED
      BY <2>1, <3>2, AsideKeeps DEF Creates, Releases
  <2> QED
    BY <1>10, <2>2, <2>3 DEF Replace
<1>11. ASSUME \/ \E w \in Workers : Register(w) \/ Unregister(w) \/ Tick(w)
              \/ \E w \in Workers, l \in LeaseIds \union {None} : HeartbeatOf(w, l)
              \/ UpdateHealth \/ DetectExpired \/ UNCHANGED vars
              \/ \E l \in LeaseIds : Renew(l) \/ Expire(l)
       PROVE  UNCHANGED <<state, tokens, copy, call>>
  BY <1>11 DEF Register, Unregister, Tick, HeartbeatOf, UpdateHealth, DetectExpired, Renew, Expire,
               vars
<1> QED
  BY <1>2, <1>3, <1>4, <1>5, <1>6, <1>7, <1>8, <1>9, <1>10, <1>11 DEF Next

---------------------------------------------------------------------------
\* A valid lease is in the index, or its call is about to enter it there.
Named ==
  \A t \in Tasks : \A l \in LiveLeases(t) :
    \/ byTask[t] = l
    \/ \E c \in Clients : call[c].step = "index" /\ call[c].task = t /\ call[c].lease = l

\* What the calls in progress have made sure of, and who holds the lock.
Cleared(c) ==
  /\ call[c].step \in {"look", "take", "insert", "unindex"} => LiveLeases(call[c].task) = {}
  /\ call[c].step \in {"revokeOld", "index"} => LiveLeases(call[c].task) \subseteq {call[c].lease}
  /\ call[c].step \in {"revoke", "revokeIndex", "revokeWorker"} => call[c].lease \in LeaseIds
  /\ call[c].step = "revokeIndex" =>
       lease[call[c].lease] # None /\ LiveLeases(lease[call[c].lease].task) = {}
  /\ call[c].step \in {"revokeIndex", "revokeWorker"} => lock = c

LInv == Named /\ \A c \in Clients : Cleared(c)

Fewer     == \A t \in Tasks : LiveLeases(t)' \subseteq LiveLeases(t)
SameTasks == \A l \in LeaseIds : lease[l] # None => lease'[l] # None /\ lease'[l].task = lease[l].task

\* Tasks of leases are tasks.
LEMMA TaskOfLease ==
  ASSUME IInv, NEW l \in LeaseIds, lease[l] # None
  PROVE  lease[l] \in LeaseType /\ lease[l].task \in Tasks
  BY DEF IInv, Shape, LeaseType

\* One lease ends, or gets older: no lease becomes valid.
LEMMA OneEnds ==
  ASSUME Sane, IInv, NEW l \in LeaseIds, lease[l] # None, NEW r \in LeaseType,
         r.task = lease[l].task, r.life = "active" => IsLive(l),
         lease' = [lease EXCEPT ![l] = r]
  PROVE  /\ Fewer /\ SameTasks
         /\ r.life # "active" => \A t \in Tasks : LiveLeases(t)' \subseteq LiveLeases(t) \ {l}
  BY TaskOfLease DEF IInv, Shape, Fewer, SameTasks, LiveLeases, IsLive, Sane

\* A step that changes no lease.
LEMMA NoneEnds ==
  ASSUME UNCHANGED lease PROVE Fewer /\ SameTasks
  BY DEF Fewer, SameTasks, LiveLeases, IsLive

\* The calls of the others keep what they made sure of.
LEMMA OthersKeep ==
  ASSUME IInv, LInv, Fewer, SameTasks, NEW c, OnlyCall(c), lock' = lock \/ lock \in {None, c},
         None \notin Clients, NEW d \in Clients, d # c
  PROVE  Cleared(d)'
<1>1. call'[d] = call[d] /\ Cleared(d)
  BY DEF OnlyCall, LInv
<1>2. call[d].step \in Creates \union Releases => call[d].task \in Tasks
  BY Facts DEF OfTask
<1>3. call[d].step = "revokeIndex" =>
        /\ lease'[call[d].lease].task = lease[call[d].lease].task
        /\ lease'[call[d].lease] # None /\ lease[call[d].lease].task \in Tasks
  BY <1>1, TaskOfLease DEF Cleared, SameTasks
<1> QED
  BY <1>1, <1>2, <1>3 DEF Cleared, Fewer, Creates, Releases

\* The index loses no valid lease.
LEMMA NamedKept ==
  ASSUME LInv, Fewer, NEW c, OnlyCall(c),
         \A t \in Tasks : \/ LiveLeases(t)' \subseteq {byTask'[t]}
                          \/ /\ byTask'[t] = byTask[t]
                             /\ c \in Clients /\ call[c].step = "index" => call[c].task # t
  PROVE  Named'
<1> SUFFICES ASSUME NEW t \in Tasks, NEW l \in LiveLeases(t)', byTask'[t] # l
             PROVE  \E d \in Clients : /\ call'[d].step = "index"
                                       /\ call'[d].task = t /\ call'[d].lease = l
  BY DEF Named
<1>1. l \in LiveLeases(t) /\ byTask[t] # l /\ (c \in Clients /\ call[c].step = "index" => call[c].task # t)
  BY DEF Fewer
<1>2. PICK d \in Clients : call[d].step = "index" /\ call[d].task = t /\ call[d].lease = l
  BY <1>1 DEF LInv, Named
<1>3. call'[d] = call[d]
  BY <1>1, <1>2 DEF OnlyCall
<1> QED
  BY <1>2, <1>3

\* A step that leaves calls, index and lock alone.
LEMMA QuietKeeps ==
  ASSUME IInv, LInv, Fewer, SameTasks, UNCHANGED <<call, byTask, lock>>
  PROVE  LInv'
<1>1. ASSUME NEW d \in Clients PROVE Cleared(d)'
  <2>1. call'[d] = call[d] /\ lock' = lock /\ Cleared(d)
    BY DEF LInv
  <2>2. call[d].step \in Creates \union Releases => call[d].task \in Tasks
    BY Facts DEF OfTask
  <2>3. call[d].step = "revokeIndex" =>
          /\ lease'[call[d].lease].task = lease[call[d].lease].task
          /\ lease'[call[d].lease] # None /\ lease[call[d].lease].task \in Tasks
    BY <2>1, TaskOfLease DEF Cleared, SameTasks
  <2> QED
    BY <2>1, <2>2, <2>3 DEF Cleared, Fewer, Creates, Releases
<1>2. Named'
  BY DEF LInv, Named, Fewer
<1> QED
  BY <1>1, <1>2 DEF LInv

\* A step of c that keeps the index, where c was not about to enter a lease there.
LEMMA ClientQuiet ==
  ASSUME IInv, LInv, Fewer, SameTasks, NEW c \in Clients, OnlyCall(c),
         lock' = lock \/ lock \in {None, c}, None \notin Clients,
         UNCHANGED byTask, call[c].step # "index", Cleared(c)'
  PROVE  LInv'
<1>1. Named'
  BY NamedKept
<1> QED
  BY <1>1, OthersKeep DEF LInv

\* Workers, health, expiry and renewal.
LEMMA PassiveSteps ==
  ASSUME Sane, IInv, LInv,
         \/ \E w \in Workers : Register(w) \/ Unregister(w) \/ Tick(w)
         \/ \E w \in Workers, l \in LeaseIds \union {None} : HeartbeatOf(w, l)
         \/ UpdateHealth \/ DetectExpired \/ UNCHANGED vars
         \/ \E l \in LeaseIds : Renew(l) \/ Expire(l)
  PROVE  LInv'
<1>1. CASE UNCHANGED <<lease, call, byTask, lock>>
  BY <1>1, NoneEnds, QuietKeeps
<1>2. CASE DetectExpired
  <2>1. Fewer /\ SameTasks
    <3>1. ASSUME NEW l \in LeaseIds
          PROVE  /\ IsLive(l)' => lease'[l] = lease[l]
                 /\ lease[l] # None => lease'[l] # None /\ lease'[l].task = lease[l].task
      <4>1. CASE IsLive(l) /\ lease[l].over
        <5>1. lease[l] \in LeaseType
          BY <4>1, TaskOfLease DEF IsLive
        <5>2. /\ [lease[l] EXCEPT !.life = "expired"].life = "expired"
              /\ [lease[l] EXCEPT !.life = "expired"].task = lease[l].task
              /\ [lease[l] EXCEPT !.life = "expired"] \in LeaseType
          BY <5>1 DEF LeaseType, Terminal
        <5>3. lease'[l] = [lease[l] EXCEPT !.life = "expired"]
          BY <1>2, <4>1 DEF DetectExpired
        <5> QED
          BY <5>2, <5>3 DEF IsLive, Sane
      <4>2. CASE ~(IsLive(l) /\ lease[l].over)
        BY <1>2, <4>2 DEF DetectExpired
      <4> QED
        BY <4>1, <4>2
    <3> QED
      BY <3>1 DEF Fewer, SameTasks, LiveLeases, IsLive
  <2> QED
    BY <1>2, <2>1, QuietKeeps DEF DetectExpired
<1>3. ASSUME NEW l \in LeaseIds, Renew(l) \/ Expire(l) PROVE LInv'
  <2>1. IsLive(l) /\ lease[l] # None /\ lease[l] \in LeaseType /\ UNCHANGED <<call, byTask, lock>>
    BY <1>3, TaskOfLease DEF Renew, Expire, IsLive
  <2>2. PICK r \in LeaseType : r.task = lease[l].task /\ lease' = [lease EXCEPT ![l] = r]
    <3>1. /\ [lease[l] EXCEPT !.life = "expired"] \in LeaseType
          /\ [lease[l] EXCEPT !.over = TRUE] \in LeaseType
          /\ [lease[l] EXCEPT !.life = "expired"].task = lease[l].task
          /\ [lease[l] EXCEPT !.over = TRUE].task = lease[l].task
      BY <2>1 DEF LeaseType, Terminal
    <3>2. \/ lease' = [lease EXCEPT ![l] = [lease[l] EXCEPT !.life = "expired"]]
          \/ lease' = [lease EXCEPT ![l] = [lease[l] EXCEPT !.over = TRUE]]
      BY <1>3 DEF Renew, Expire
    <3> QED
      BY <3>1, <3>2
  <2> QED
    BY <2>1, <2>2, OneEnds, QuietKeeps
<1> QED
  BY <1>1, <1>2, <1>3 DEF Register, Unregister, Tick, HeartbeatOf, UpdateHealth, leaseVars, vars

\* Calls begin.  Nothing of what Cleared says is asked of a call at "lookup"; a release
\* ends the one lease of its task.
LEMMA BeginKeeps ==
  ASSUME Sane, Exclusive, IInv, GInv, LInv, NEW c \in Clients,
         \/ \E w \in Workers, t \in Tasks : CreateLease(c, w, t)
         \/ \E l \in LeaseIds : lease[l] # None /\ lease[l].task \in Serves[c] /\ ReleaseLease(c, l)
         \/ \E w, n \in Workers : Replace(c, w, n)
  PROVE  LInv'
<1>0. None \notin Clients
  BY DEF Sane
<1>1. ASSUME NEW w \in Workers, NEW t \in Tasks, CreateLease(c, w, t) PROVE LInv'
  <2>1. OnlyCall(c) /\ call'[c].step = "lookup" /\ call[c].step = "idle"
    BY <1>1, BeginFacts DEF CreateLease, IInv, Steps
  <2> QED
    BY <1>0, <1>1, <2>1, NoneEnds, ClientQuiet DEF CreateLease, leaseVars, Cleared
<1>2. ASSUME NEW l \in LeaseIds, lease[l] # None, lease[l].task \in Serves[c], ReleaseLease(c, l)
      PROVE  LInv'
  <2> DEFINE r == [lease[l] EXCEPT !.life = "released"]
  <2>1. IsLive(l) /\ lease[l] \in LeaseType
    BY <1>2, TaskOfLease DEF ReleaseLease
  <2>2. PICK t \in Tasks : t = lease[l].task
    BY <2>1, TaskOfLease DEF IsLive
  <2>3. r \in LeaseType /\ r.task = lease[l].task /\ r.life = "released"
    BY <2>1 DEF LeaseType, Terminal
  <2>4. /\ OnlyCall(c) /\ call[c].step = "idle"
        /\ call'[c].step = "unindex" /\ call'[c].task = t
    BY <1>2, <2>1, <2>2, BeginFacts DEF ReleaseLease, IInv, Steps, LeaseType
  <2>5. lease' = [lease EXCEPT ![l] = r] /\ UNCHANGED <<byTask, lock>>
    BY <1>2 DEF ReleaseLease
  <2> HIDE DEF r
  <2>6. Fewer /\ SameTasks /\ LiveLeases(t)' \subseteq LiveLeases(t) \ {l}
    BY <1>2, <2>1, <2>2, <2>3, <2>5, OneEnds
  <2>7. LiveLeases(t) \subseteq {byTask[t]}
    <3>1. ASSUME NEW d \in Clients, call[d].step = "index", call[d].task = t PROVE FALSE
      <4>1. d # c /\ call[d].task \in Serves[d]
        BY <2>4, <3>1 DEF GInv, Served, Creates
      <4> QED
        BY <1>2, <2>2, <3>1, <4>1 DEF Exclusive
    <3> QED
      BY <3>1 DEF LInv, Named
  <2>8. l \in LiveLeases(t)
    BY <2>1, <2>2 DEF LiveLeases
  <2>9. LiveLeases(t)' = {}
    BY <2>6, <2>7, <2>8
  <2>10. Cleared(c)'
    BY <2>4, <2>9 DEF Cleared
  <2> QED
    BY <1>0, <2>4, <2>5, <2>6, <2>10, ClientQuiet
<1>3. ASSUME NEW w \in Workers, NEW n \in Workers, Replace(c, w, n) PROVE LInv'
  <2>1. UNCHANGED <<lease, byTask, lock>>
    BY <1>3 DEF Replace, leaseVars
  <2>2. CASE UNCHANGED call
    BY <2>1, <2>2, NoneEnds, QuietKeeps
  <2>3. CASE Begin(c, "revoke", w, None, active[w], n) /\ active[w] # None
    <3>1. active[w] \in LeaseIds
      BY <2>3 DEF IInv, Shape
    <3>2. /\ OnlyCall(c) /\ call'[c].step = "revoke" /\ call'[c].lease \in LeaseIds
          /\ call[c].step = "idle"
      BY <2>3, <3>1, BeginFacts DEF IInv, Steps
    <3> QED
      BY <1>0, <2>1, <3>2, NoneEnds, ClientQuiet DEF Cleared
  <2> QED
    BY <1>3, <2>2, <2>3 DEF Replace
<1> QED
  BY <1>1, <1>2, <1>3

\* While a call of c works on a task of c's, no other call enters a lease of that task.
LEMMA AloneAt ==
  ASSUME Exclusive, GInv, NEW c \in Clients, NEW t \in Serves[c], call[c].step # "index"
  PROVE  \A d \in Clients : ~(call[d].step = "index" /\ call[d].task = t)
<1> SUFFICES ASSUME NEW d \in Clients, call[d].step = "index", call[d].task = t PROVE FALSE
  OBVIOUS
<1>1. d # c /\ t \in Serves[d]
  BY DEF GInv, Served, Creates
<1> QED
  BY <1>1 DEF Exclusive

\* The sections of create_lease, apart from the ones that end it or write the index.
LEMMA CreateKeeps ==
  ASSUME Sane, Exclusive, IInv, GInv, LInv, NEW c \in Clients,
         Lookup(c) \/ RevokeOld(c) \/ AcquireLook(c) \/ AcquireTake(c)
  PROVE  LInv'
<1>0. None \notin Clients /\ OfTask(call[c]) /\ OfLease(call[c], lease) /\ Cleared(c)
  BY Facts DEF Sane, LInv
<1>1. CASE Lookup(c)
  <2> DEFINE t == call[c].task
             old == byTask[t]
             s == IF old = None THEN "look" ELSE "revokeOld"
  <2>1. /\ call[c].step = "lookup" /\ call[c].step \in Steps
        /\ t \in Tasks /\ t \in Serves[c]
    BY <1>0, <1>1 DEF Lookup, At, Steps, OfTask, Creates, GInv, Served
  <2>2. /\ call' = [call EXCEPT ![c] = [call[c] EXCEPT !.step = s, !.lease = old]]
        /\ UNCHANGED <<lease, byTask, lock>>
    BY <1>1 DEF Lookup, leaseVars
  <2>3. s \in {"look", "revokeOld"} /\ (s = "look" => old = None)
    OBVIOUS
  <2>4. LiveLeases(t) \subseteq {old}
    BY <2>1, AloneAt DEF LInv, Named
  <2>5. s = "look" => LiveLeases(t) = {}
    <3>1. None \notin LeaseIds
      BY LeasesAssumption DEF LeaseIds
    <3> QED
      BY <2>3, <2>4, <3>1 DEF LiveLeases
  <2> HIDE DEF t, old, s
  <2>6. call'[c].step = s /\ call'[c].task = t /\ call'[c].lease = old /\ OnlyCall(c)
    BY <2>1, <2>2, Facts DEF IInv, Shape, OnlyCall, t
  <2>7. LiveLeases(t)' \subseteq LiveLeases(t) /\ Fewer /\ SameTasks
    BY <2>2, NoneEnds, <2>1, <2>6 DEF LiveLeases, IsLive, t
  <2>8. Cleared(c)'
    BY <2>3, <2>4, <2>5, <2>6, <2>7 DEF Cleared, t
  <2> QED
    BY <1>0, <2>1, <2>2, <2>6, <2>7, <2>8, ClientQuiet
<1>2. CASE RevokeOld(c)
  <2> DEFINE r == [lease[call[c].lease] EXCEPT !.life = "revoked"]
  <2>1. PICK t \in Tasks, l \in LeaseIds : t = call[c].task /\ l = call[c].lease
    BY <1>0, <1>2 DEF RevokeOld, At, OfTask, OfLease, Creates
  <2>2. /\ call[c].step = "revokeOld" /\ call[c].step \in Steps
        /\ lease[l] # None /\ lease[l] \in LeaseType
    BY <1>0, <1>2, <2>1, TaskOfLease DEF RevokeOld, At, OfLease, Steps
  <2>3. r \in LeaseType /\ r.task = lease[l].task /\ r.life = "revoked"
    BY <2>1, <2>2 DEF LeaseType, Terminal
  <2>4. lease' = [lease EXCEPT ![l] = r] /\ UNCHANGED <<byTask, lock>> /\ Goto(c, "look")
    BY <1>2, <2>1 DEF RevokeOld
  <2> HIDE DEF r
  <2>5. Fewer /\ SameTasks /\ LiveLeases(t)' \subseteq LiveLeases(t) \ {l}
    BY <2>2, <2>3, <2>4, OneEnds
  <2>6. LiveLeases(t)' = {}
    BY <1>0, <2>1, <2>2, <2>5 DEF Cleared
  <2>7. call'[c].step = "look" /\ call'[c].task = t /\ OnlyCall(c)
    BY <2>1, <2>2, <2>4, GotoFacts, NotIdle DEF IInv, Steps
  <2>8. Cleared(c)'
    BY <2>6, <2>7 DEF Cleared
  <2> QED
    BY <1>0, <2>2, <2>4, <2>5, <2>7, <2>8, ClientQuiet
<1>3. ASSUME AcquireLook(c) \/ AcquireTake(c) PROVE LInv'
  <2>1. PICK t \in Tasks : t = call[c].task
    BY <1>0, <1>3 DEF AcquireLook, AcquireTake, At, OfTask, Creates
  <2>2. call[c].step \in {"look", "take"} /\ call[c].step \in Steps /\ LiveLeases(t) = {}
    BY <1>0, <1>3, <2>1 DEF AcquireLook, AcquireTake, At, Steps, Cleared
  <2>3. UNCHANGED <<lease, byTask, lock>>
    BY <1>3 DEF AcquireLook, AcquireTake, leaseVars
  <2>4. call'[c].step \in {"take", "insert"} /\ call'[c].task = t /\ OnlyCall(c)
    <3>1. CASE AcquireLook(c)
      <4>1. call' = [call EXCEPT ![c] = [call[c] EXCEPT !.step = "take", !.lease = nextLease]]
        BY <3>1 DEF AcquireLook
      <4> QED
        BY <2>1, <2>2, <4>1, Facts DEF IInv, Shape, OnlyCall
    <3>2. CASE AcquireTake(c)
      BY <2>1, <2>2, <3>2, GotoFacts, NotIdle DEF AcquireTake, IInv, Steps
    <3> QED
      BY <1>3, <3>1, <3>2
  <2>5. Fewer /\ SameTasks /\ LiveLeases(t)' \subseteq LiveLeases(t)
    BY <2>3, NoneEnds DEF Fewer
  <2>6. Cleared(c)'
    BY <2>2, <2>4, <2>5 DEF Cleared
  <2> QED
    BY <1>0, <2>2, <2>3, <2>4, <2>5, <2>6, ClientQuiet
<1> QED
  BY <1>1, <1>2, <1>3

\* The new lease is inserted: the only valid one of its task, and its call enters it.
LEMMA InsertKeeps ==
  ASSUME Sane, Exclusive, IInv, GInv, LInv, NEW c \in Clients, Insert(c)
  PROVE  LInv'
<1> DEFINE r == [worker |-> call[c].worker, task |-> call[c].task, life |-> "active", over |-> FALSE]
<1>0. OfTask(call[c]) /\ OfLease(call[c], lease) /\ Cleared(c)
  BY Facts DEF LInv
<1>1. PICK t \in Tasks, l \in LeaseIds : t = call[c].task /\ l = call[c].lease
  BY <1>0 DEF Insert, At, OfTask, OfLease, Creates
<1>2. call[c].step = "insert" /\ call[c].step \in Steps /\ LiveLeases(t) = {} /\ lock = None
  BY <1>0, <1>1 DEF Insert, At, Steps, Cleared
<1>3. r.task = t /\ r # None
  <2>1. r \in LeaseType
    BY <1>1, <1>2, Facts DEF LeaseType
  <2> QED
    BY <1>1, <2>1 DEF Sane
<1>4. lease' = [lease EXCEPT ![l] = r] /\ UNCHANGED <<byTask, lock>> /\ Goto(c, "index")
  BY <1>1 DEF Insert
<1> HIDE DEF r
<1>5. /\ LiveLeases(t)' \subseteq {l}
      /\ \A x \in Tasks \ {t} : LiveLeases(x)' \subseteq LiveLeases(x)
  BY <1>2, <1>3, <1>4 DEF LiveLeases, IsLive, IInv, Shape
<1>6. /\ call'[c].step = "index" /\ call'[c].task = t /\ call'[c].lease = l
      /\ OnlyCall(c)
  BY <1>1, <1>2, <1>4, GotoFacts, NotIdle DEF IInv, Steps
<1>7. ASSUME NEW d \in Clients PROVE Cleared(d)'
  <2>1. CASE d = c
    BY <1>5, <1>6, <2>1 DEF Cleared
  <2>2. CASE d # c
    <3>1. call'[d] = call[d] /\ Cleared(d)
      BY <1>6, <2>2 DEF OnlyCall, LInv
    <3>2. call[d].step \in Creates \union Releases => call[d].task \in Tasks \ {t}
      BY <1>1, <1>2, <2>2, Facts DEF OfTask, Exclusive, GInv, Served, Creates
    <3>3. call[d].step \notin {"revokeIndex", "revokeWorker"}
      BY <1>2, <3>1 DEF Cleared, Sane
    <3> QED
      BY <1>4, <1>5, <3>1, <3>2, <3>3 DEF Cleared, Creates, Releases
  <2> QED
    BY <2>1, <2>2
<1>8. ASSUME NEW x \in Tasks, NEW k \in LiveLeases(x)', byTask'[x] # k
      PROVE  \E d \in Clients : call'[d].step = "index" /\ call'[d].task = x /\ call'[d].lease = k
  <2>1. CASE x = t
    BY <1>5, <1>6, <1>8, <2>1
  <2>2. CASE x # t
    <3>1. PICK d \in Clients : call[d].step = "index" /\ call[d].task = x /\ call[d].lease = k
      BY <1>4, <1>5, <1>8, <2>2 DEF LInv, Named
    <3>2. call'[d] = call[d]
      BY <1>2, <1>6, <3>1 DEF OnlyCall
    <3> QED
      BY <3>1, <3>2
  <2> QED
    BY <2>1, <2>2
<1> QED
  BY <1>7, <1>8 DEF LInv, Named

\* The sections that write the index.
LEMMA IndexKeeps ==
  ASSUME Sane, IInv, LInv, NEW c \in Clients, Index(c) \/ Unindex(c) \/ RevokeIndex(c)
  PROVE  LInv'
<1>0. /\ None \notin Clients /\ OfTask(call[c]) /\ OfLease(call[c], lease) /\ Cleared(c)
      /\ byTask \in [Tasks -> LeaseIds \union {None}]
  BY Facts DEF Sane, LInv
<1>1. UNCHANGED <<lease, lock>> /\ Fewer /\ SameTasks
  BY NoneEnds DEF Index, Unindex, RevokeIndex
<1>2. CASE Index(c)
  <2>1. PICK t \in Tasks, l \in LeaseIds : t = call[c].task /\ l = call[c].lease
    BY <1>0, <1>2 DEF Index, At, OfTask, OfLease, Creates
  <2>2. call[c].step = "index" /\ call[c].step \in Steps /\ LiveLeases(t) \subseteq {l}
    BY <1>0, <1>2, <2>1 DEF Index, At, Steps, Cleared
  <2>3. byTask' = [byTask EXCEPT ![t] = l] /\ Goto(c, "assign")
    BY <1>2, <2>1 DEF Index
  <2>4. call'[c].step = "assign" /\ OnlyCall(c)
    BY <2>2, <2>3, GotoFacts, NotIdle DEF IInv, Steps
  <2>5. Cleared(c)'
    BY <2>4 DEF Cleared
  <2>6. LiveLeases(t)' \subseteq {byTask'[t]} /\ \A x \in Tasks \ {t} : byTask'[x] = byTask[x]
    BY <1>0, <1>1, <2>2, <2>3 DEF Fewer
  <2>7. Named'
    BY <1>1, <2>1, <2>4, <2>6, NamedKept
  <2> QED
    BY <1>0, <1>1, <2>4, <2>5, <2>7, OthersKeep DEF LInv
<1>3. CASE Unindex(c)
  <2>1. PICK t \in Tasks : t = call[c].task
    BY <1>0, <1>3 DEF Unindex, At, OfTask, Releases
  <2>2. call[c].step = "unindex" /\ call[c].step \in Steps /\ LiveLeases(t) = {}
    BY <1>0, <1>3, <2>1 DEF Unindex, At, Steps, Cleared
  <2>3. byTask' = [byTask EXCEPT ![t] = None] /\ Goto(c, "disown")
    BY <1>3, <2>1 DEF Unindex
  <2>4. call'[c].step = "disown" /\ OnlyCall(c)
    BY <2>2, <2>3, GotoFacts, NotIdle DEF IInv, Steps
  <2>5. Cleared(c)'
    BY <2>4 DEF Cleared
  <2>6. LiveLeases(t)' = {} /\ \A x \in Tasks \ {t} : byTask'[x] = byTask[x]
    BY <1>0, <1>1, <2>2, <2>3 DEF Fewer
  <2>7. Named'
    BY <1>1, <2>2, <2>4, <2>6, NamedKept
  <2> QED
    BY <1>0, <1>1, <2>4, <2>5, <2>7, OthersKeep DEF LInv
<1>4. CASE RevokeIndex(c)
  <2>1. call[c].step = "revokeIndex" /\ call[c].step \in Steps /\ call[c].lease \in LeaseIds
    BY <1>0, <1>4 DEF RevokeIndex, At, Steps, Cleared
  <2>2. PICK t \in Tasks : t = lease[call[c].lease].task
    BY <1>0, <2>1, TaskOfLease DEF Cleared
  <2>3. LiveLeases(t) = {} /\ lock = c
    BY <1>0, <2>1, <2>2 DEF Cleared
  <2>4. byTask' = [byTask EXCEPT ![t] = None] /\ Goto(c, "revokeWorker")
    BY <1>4, <2>2 DEF RevokeIndex
  <2>5. call'[c].step = "revokeWorker" /\ call'[c].lease = call[c].lease /\ OnlyCall(c)
    BY <2>1, <2>4, GotoFacts, NotIdle DEF IInv, Steps
  <2>6. Cleared(c)'
    BY <1>1, <2>1, <2>3, <2>5 DEF Cleared
  <2>7. LiveLeases(t)' = {} /\ \A x \in Tasks \ {t} : byTask'[x] = byTask[x]
    BY <1>0, <1>1, <2>3, <2>4 DEF Fewer
  <2>8. Named'
    BY <1>1, <2>1, <2>5, <2>7, NamedKept
  <2> QED
    BY <1>0, <1>1, <2>5, <2>6, <2>8, OthersKeep DEF LInv
<1> QED
  BY <1>2, <1>3, <1>4

\* Two valid leases of a task are one: the index has room for one, and a call that is
\* about to enter a lease there left no other.
LEMMA LiveIsOne ==
  ASSUME LInv, NEW t \in Tasks, NEW k \in LiveLeases(t), NEW l \in LiveLeases(t)
  PROVE  k = l
<1>1. CASE \E c \in Clients : call[c].step = "index" /\ call[c].task = t
  BY <1>1 DEF LInv, Cleared
<1>2. CASE ~\E c \in Clients : call[c].step = "index" /\ call[c].task = t
  BY <1>2 DEF LInv, Named
<1> QED
  BY <1>1, <1>2

\* The other sections: the ends of calls, and revocation.
LEMMA EndKeeps ==
  ASSUME Sane, Exclusive, IInv, GInv, LInv, NEW c \in Clients,
         \/ Assign(c) \/ Disown(c) \/ ClearWorker(c)
         \/ RevokeLease(c) \/ RevokeWorker(c) \/ RegisterNew(c)
  PROVE  LInv'
<1>0. None \notin Clients /\ OfTask(call[c]) /\ OfLease(call[c], lease) /\ Cleared(c)
  BY Facts DEF Sane, LInv
<1>1. ASSUME Done(c), call[c].step # "index", UNCHANGED leaseVars PROVE LInv'
  <2>1. call'[c].step = "idle" /\ OnlyCall(c)
    BY <1>1, DoneFacts DEF IInv
  <2> QED
    BY <1>0, <1>1, <2>1, NoneEnds, ClientQuiet DEF Cleared, leaseVars
<1>2. CASE Assign(c) \/ ClearWorker(c) \/ RegisterNew(c)
  BY <1>1, <1>2 DEF Assign, ClearWorker, RegisterNew, At
<1>3. CASE Disown(c) \/ RevokeWorker(c)
  <2>1. PICK s \in {"clear", "register"} : Goto(c, s)
    BY <1>3 DEF Disown, RevokeWorker
  <2>2. call[c].step \in {"disown", "revokeWorker"} /\ call[c].step \in Steps /\ s \in Steps
    BY <1>3 DEF Disown, RevokeWorker, At, Steps
  <2>3. UNCHANGED <<lease, byTask>> /\ (lock' = lock \/ lock \in {None, c})
    BY <1>0, <1>3 DEF Disown, RevokeWorker, At, leaseVars, Cleared
  <2>4. call'[c].step = s /\ OnlyCall(c)
    BY <2>1, <2>2, GotoFacts, NotIdle DEF IInv
  <2>5. Cleared(c)'
    BY <2>1, <2>4 DEF Cleared
  <2> QED
    BY <1>0, <2>2, <2>3, <2>4, <2>5, NoneEnds, ClientQuiet
<1>4. CASE RevokeLease(c)
  <2>1. PICK l \in LeaseIds : l = call[c].lease
    BY <1>0, <1>4 DEF RevokeLease, At, Cleared
  <2>2. call[c].step = "revoke" /\ call[c].step \in Steps /\ lock = None /\ UNCHANGED byTask
    BY <1>4 DEF RevokeLease, At, Steps
  <2>3. CASE UNCHANGED <<lease, lock>> /\ Goto(c, "register")
    <3>1. call'[c].step = "register" /\ OnlyCall(c)
      BY <2>2, <2>3, GotoFacts, NotIdle DEF IInv, Steps
    <3>2. Cleared(c)'
      BY <3>1 DEF Cleared
    <3> QED
      BY <1>0, <2>2, <2>3, <3>1, <3>2, NoneEnds, ClientQuiet
  <2>4. CASE IsLive(l) /\ lock' = c /\ Goto(c, "revokeIndex")
             /\ lease' = [lease EXCEPT ![l] = [lease[l] EXCEPT !.life = "revoked"]]
    <3> DEFINE r == [lease[l] EXCEPT !.life = "revoked"]
    <3>1. lease[l] # None /\ lease[l] \in LeaseType
      BY <2>4, TaskOfLease DEF IsLive
    <3>2. PICK t \in Tasks : t = lease[l].task
      BY <3>1, TaskOfLease
    <3>3. r \in LeaseType /\ r.task = lease[l].task /\ r.life = "revoked"
      BY <3>1 DEF LeaseType, Terminal
    <3>4. lease' = [lease EXCEPT ![l] = r]
      BY <2>4
    <3> HIDE DEF r
    <3>5. Fewer /\ SameTasks /\ LiveLeases(t)' \subseteq LiveLeases(t) \ {l}
      BY <3>1, <3>3, <3>4, OneEnds
    <3>6. l \in LiveLeases(t)
      BY <2>4, <3>2 DEF LiveLeases
    <3>7. call'[c].step = "revokeIndex" /\ call'[c].lease = l /\ OnlyCall(c)
      BY <2>1, <2>2, <2>4, GotoFacts, NotIdle DEF IInv, Steps
    <3>8. LiveLeases(t)' = {}
      BY <3>5, <3>6, LiveIsOne
    <3>9. lease'[l] # None /\ lease'[l].task = t
      BY <3>1, <3>2, <3>5 DEF SameTasks
    <3>10. Cleared(c)'
      BY <2>4, <3>7, <3>8, <3>9 DEF Cleared
    <3> QED
      BY <1>0, <2>2, <2>4, <3>5, <3>7, <3>10, ClientQuiet
  <2> QED
    BY <1>4, <2>1, <2>3, <2>4 DEF RevokeLease
<1> QED
  BY <1>2, <1>3, <1>4

\* Every step keeps valid leases in the index.
LEMMA ValidInductive ==
  ASSUME Sane, Exclusive, IInv, GInv, LInv, [Next]_vars PROVE LInv'
<1>1. Replacers \subseteq Clients
  BY LeasesAssumption
<1>2. ASSUME NEW c \in Clients, Step(c) PROVE LInv'
  BY <1>2, CreateKeeps, InsertKeeps, IndexKeeps, EndKeeps DEF Step
<1> QED
  BY <1>1, <1>2, PassiveSteps, BeginKeeps DEF Next

\* One lease of a task can be valid, however its calls, expiry, renewal and the
\* replacement of workers interleave, if no two clients lease out the same task.
THEOREM AtMostOneLease ==
  ASSUME Sane, Exclusive PROVE Spec => []OneActiveLease
<1>1. Init => LInv
  BY DEF Init, LInv, Named, Cleared, LiveLeases, IsLive, Idle
<1>2. IInv /\ GInv /\ LInv /\ [Next]_vars => LInv'
  BY ValidInductive
<1>3. IInv /\ LInv => OneActiveLease
  <2> SUFFICES ASSUME IInv, LInv, NEW t \in Tasks PROVE Cardinality(LiveLeases(t)) <= 1
    BY DEF OneActiveLease
  <2>1. CASE LiveLeases(t) = {}
    BY <2>1, FS_EmptySet
  <2>2. CASE LiveLeases(t) # {}
    <3>1. PICK l : LiveLeases(t) = {l}
      BY <2>2, LiveIsOne
    <3>2. Cardinality({l}) = 1
      BY FS_Singleton
    <3> QED
      BY <3>1, <3>2
  <2> QED
    BY <2>1, <2>2
<1>4. Init => GInv
  BY DEF Init, GInv, Served, UpToDate, Idle, Creates, Releases
<1>5. IInv /\ GInv /\ Own!OwnTypeOK /\ [Next]_vars => GInv'
  BY CopiesStep
<1>6. Own!OwnSpec => []Own!OwnTypeOK
  BY OwnTypeCorrect
<1> QED
  BY <1>1, <1>2, <1>3, <1>4, <1>5, <1>6, CallsGrounded, OwnershipImplemented, PTL DEF Spec

---------------------------------------------------------------------------
\* The register says that w owns t, under lease l.
HoldsFor(t, w, l) == state[t] # None /\ state[t].owner = w /\ state[t].token.lease = l

\* The worker of a valid lease owns its task, and so does the one of a lease about to be
\* inserted; a release gives up a task that has no valid lease.
Owned ==
  /\ \A t \in Tasks : \A l \in LiveLeases(t) : HoldsFor(t, lease[l].worker, l)
  /\ \A c \in Clients :
       /\ call[c].step = "insert" => HoldsFor(call[c].task, call[c].worker, call[c].lease)
       /\ call[c].step = "disown" => LiveLeases(call[c].task) = {}

\* Valid leases were valid before, for the same task and worker.
SameLive ==
  \A l \in LeaseIds : IsLive(l)' => /\ IsLive(l) /\ lease'[l].task = lease[l].task
                                    /\ lease'[l].worker = lease[l].worker

\* A step that adds no valid lease, and changes the owner of a task without one.
LEMMA OwnedKept ==
  ASSUME IInv, Owned, SameLive,
         \A t \in Tasks : (state[t] # None => state'[t] = state[t]) \/ LiveLeases(t) = {},
         \A d \in Clients : call'[d].step = "insert" =>
           \/ call'[d] = call[d] /\ (state[call[d].task] # None => state'[call[d].task] = state[call[d].task])
           \/ HoldsFor(call[d].task, call[d].worker, call[d].lease)' ,
         \A d \in Clients : call'[d].step = "disown" =>
           call'[d] = call[d] \/ LiveLeases(call[d].task)' = {}
  PROVE  Owned'
<1>1. \A t \in Tasks : LiveLeases(t)' \subseteq LiveLeases(t)
  BY DEF SameLive, LiveLeases
<1>2. ASSUME NEW t \in Tasks, NEW l \in LiveLeases(t)'
      PROVE  HoldsFor(t, lease[l].worker, l)'
  <2>1. l \in LiveLeases(t) /\ lease'[l].worker = lease[l].worker /\ HoldsFor(t, lease[l].worker, l)
    BY <1>1 DEF SameLive, Owned, LiveLeases
  <2> QED
    BY <2>1 DEF HoldsFor
<1>3. ASSUME NEW d \in Clients
      PROVE  /\ call'[d].step = "insert" => HoldsFor(call[d].task, call[d].worker, call[d].lease)'
             /\ call'[d].step = "disown" => LiveLeases(call[d].task)' = {}
  <2>1. call[d].step = "disown" => call[d].task \in Tasks
    BY Facts DEF OfTask, Releases
  <2> QED
    BY <1>1, <2>1 DEF Owned, HoldsFor
<1> QED
  BY <1>2, <1>3 DEF Owned

\* The end of a lease, or the passing of its time, on an inserted lease.
LEMMA LiveChange ==
  ASSUME Sane, IInv, NEW l \in LeaseIds, IsLive(l),
         \/ \E s \in Terminal : lease' = [lease EXCEPT ![l] = [lease[l] EXCEPT !.life = s]]
         \/ lease' = [lease EXCEPT ![l] = [lease[l] EXCEPT !.over = TRUE]]
  PROVE  SameLive
<1>1. lease[l] \in LeaseType
  BY TaskOfLease DEF IsLive
<1>2. ASSUME NEW s \in Terminal
      PROVE  [lease[l] EXCEPT !.life = s].life # "active"
  BY <1>1 DEF LeaseType, Terminal
<1>3. /\ [lease[l] EXCEPT !.over = TRUE].task = lease[l].task
      /\ [lease[l] EXCEPT !.over = TRUE].worker = lease[l].worker
  BY <1>1 DEF LeaseType
<1>4. CASE \E s \in Terminal : lease' = [lease EXCEPT ![l] = [lease[l] EXCEPT !.life = s]]
  <2>1. PICK s \in Terminal : lease' = [lease EXCEPT ![l] = [lease[l] EXCEPT !.life = s]]
    BY <1>4
  <2> DEFINE r == [lease[l] EXCEPT !.life = s]
  <2>2. lease' = [lease EXCEPT ![l] = r] /\ r.life # "active"
    BY <1>2, <2>1
  <2> HIDE DEF r
  <2> QED
    BY <2>2 DEF SameLive, IsLive, IInv, Shape
<1>5. CASE lease' = [lease EXCEPT ![l] = [lease[l] EXCEPT !.over = TRUE]]
  <2> DEFINE r == [lease[l] EXCEPT !.over = TRUE]
  <2>1. lease' = [lease EXCEPT ![l] = r] /\ r.task = lease[l].task /\ r.worker = lease[l].worker
    BY <1>3, <1>5
  <2> HIDE DEF r
  <2> QED
    BY <2>1 DEF SameLive, IsLive, IInv, Shape
<1> QED
  BY <1>4, <1>5

\* Every step but an insertion keeps the valid leases as they are, or ends some.
LEMMA LiveStep ==
  ASSUME Sane, IInv, LInv, [Next]_vars, \A c \in Clients : ~Insert(c)
  PROVE  SameLive
<1>1. CASE UNCHANGED lease
  BY <1>1 DEF SameLive, IsLive
<1>2. CASE DetectExpired
  <2> SUFFICES ASSUME NEW l \in LeaseIds, IsLive(l)' PROVE lease'[l] = lease[l]
    BY DEF SameLive, IsLive
  <2>1. CASE IsLive(l) /\ lease[l].over
    <3>1. lease[l] \in LeaseType
      BY <2>1, TaskOfLease DEF IsLive
    <3>2. lease'[l] = [lease[l] EXCEPT !.life = "expired"]
      BY <1>2, <2>1 DEF DetectExpired
    <3>3. lease'[l].life = "expired"
      BY <3>1, <3>2 DEF LeaseType
    <3> QED
      BY <3>3 DEF IsLive
  <2>2. CASE ~(IsLive(l) /\ lease[l].over)
    BY <1>2, <2>2 DEF DetectExpired
  <2> QED
    BY <2>1, <2>2
<1>3. ASSUME NEW l \in LeaseIds, Renew(l) \/ Expire(l) PROVE SameLive
  BY <1>3, LiveChange DEF Renew, Expire, Terminal
<1>4. ASSUME NEW c \in Clients, NEW l \in LeaseIds, ReleaseLease(c, l) PROVE SameLive
  BY <1>4, LiveChange DEF ReleaseLease, Terminal
<1>5. ASSUME NEW c \in Clients, RevokeOld(c) PROVE SameLive
  <2>1. PICK l \in LeaseIds : l = call[c].lease /\ lease[l] # None
    BY <1>5, Facts DEF RevokeOld, At, OfLease
  <2> DEFINE r == [lease[l] EXCEPT !.life = "revoked"]
  <2>2. r.life # "active"
    BY <2>1, TaskOfLease DEF LeaseType
  <2>3. lease' = [lease EXCEPT ![l] = r]
    BY <1>5, <2>1 DEF RevokeOld
  <2> HIDE DEF r
  <2> QED
    BY <2>2, <2>3 DEF SameLive, IsLive, IInv, Shape
<1>6. ASSUME NEW c \in Clients, RevokeLease(c) PROVE SameLive
  <2>1. call[c].lease \in LeaseIds
    BY <1>6 DEF RevokeLease, At, LInv, Cleared
  <2> QED
    BY <1>1, <1>6, <2>1, LiveChange DEF RevokeLease, Terminal
<1>7. ASSUME NEW c \in Clients, Step(c) PROVE SameLive
  BY <1>1, <1>5, <1>6, <1>7 DEF Step, Lookup, AcquireLook, AcquireTake, Index, Assign, Unindex,
       Disown, ClearWorker, RevokeIndex, RevokeWorker, RegisterNew, leaseVars
<1>8. ASSUME \/ \E w \in Workers : Register(w) \/ Unregister(w) \/ Tick(w)
             \/ \E w \in Workers, l \in LeaseIds \union {None} : HeartbeatOf(w, l)
             \/ UpdateHealth \/ UNCHANGED vars
             \/ \E c \in Clients, w \in Workers, t \in Tasks : CreateLease(c, w, t)
             \/ \E c \in Replacers, w, n \in Workers : Replace(c, w, n)
      PROVE  UNCHANGED lease
  BY <1>8 DEF Register, Unregister, Tick, HeartbeatOf, UpdateHealth, CreateLease, Replace, vars, leaseVars
<1> QED
  BY <1>1, <1>2, <1>3, <1>4, <1>7, <1>8 DEF Next

\* The register under each of its three uses.
LEMMA OwnedByUse ==
  ASSUME Sane, Exclusive, IInv, GInv, LInv, Owned, [Next]_vars, NEW c \in Clients,
         AcquireLook(c) \/ AcquireTake(c) \/ Disown(c), Own!OwnTypeOK
  PROVE  Owned'
<1> USE DEF Own!OwnTypeOK
<1>0. OfTask(call[c]) /\ OfLease(call[c], lease) /\ Cleared(c)
  BY Facts DEF LInv
<1>1. PICK t \in Tasks : t = call[c].task
  BY <1>0 DEF AcquireLook, AcquireTake, Disown, At, OfTask, Creates, Releases
<1>2. /\ call[c].step \in {"look", "take", "disown"} /\ call[c].step \in Steps
      /\ t \in Serves[c]
  BY <1>1 DEF AcquireLook, AcquireTake, Disown, At, Steps, GInv, Served, Creates, Releases
<1>3. LiveLeases(t) = {}
  BY <1>0, <1>1, <1>2 DEF Cleared, Owned
<1>4. SameLive
  BY LiveStep, <1>2 DEF SameLive, AcquireLook, AcquireTake, Disown, leaseVars, IsLive
<1>5. \A x \in Tasks \ {t} : state'[x] = state[x]
  BY <1>1 DEF AcquireLook, AcquireTake, Disown, Own!Look, Own!Take, Own!Release
<1>6. OnlyCall(c) /\ (call'[c].step = "insert" => AcquireTake(c)) /\ call'[c].step # "disown"
  <2>1. CASE AcquireLook(c)
    <3>1. call' = [call EXCEPT ![c] = [call[c] EXCEPT !.step = "take", !.lease = nextLease]]
      BY <2>1 DEF AcquireLook
    <3> QED
      BY <1>2, <3>1, Facts DEF IInv, Shape, OnlyCall
  <2>2. CASE AcquireTake(c)
    BY <1>2, <2>2, GotoFacts, NotIdle DEF AcquireTake, IInv, Steps
  <2>3. CASE Disown(c)
    BY <1>2, <2>3, GotoFacts, NotIdle DEF Disown, IInv, Steps
  <2> QED
    BY <2>1, <2>2, <2>3
<1>7. AcquireTake(c) => HoldsFor(call[c].task, call[c].worker, call[c].lease)'
  <2> SUFFICES ASSUME AcquireTake(c)
               PROVE  HoldsFor(call[c].task, call[c].worker, call[c].lease)'
    OBVIOUS
  <2>1. /\ call'[c].task = t /\ call'[c].worker = call[c].worker /\ call'[c].lease = call[c].lease
    BY <1>1, <1>2, GotoFacts, NotIdle DEF AcquireTake, IInv, Steps
  <2> DEFINE tok == [owner |-> call[c].worker, generation |-> copy[c].generation + 1,
                     lease |-> call[c].lease]
             st == [generation |-> tok.generation, owner |-> call[c].worker, token |-> tok]
  <2>2. state' = [state EXCEPT ![t] = st]
    BY <1>1 DEF AcquireTake, Own!Take, Own!Token, Own!NextGeneration
  <2>3. st # None
    <3>1. copy[c] \in Own!StateType
      BY DEF AcquireTake, Own!Take
    <3>2. copy[c].generation + 1 \in Nat
      BY <3>1 DEF Own!StateType
    <3>3. call[c].worker \in Workers /\ call[c].lease \in LeaseIds \union {None}
      BY <1>2, Facts
    <3>4. tok \in Own!TokenType /\ tok.generation \in Nat
      BY <3>2, <3>3 DEF Own!TokenType
    <3>5. st \in Own!StateType
      BY <3>3, <3>4 DEF Own!StateType
    <3> QED
      BY <3>5 DEF Sane, NoneIsNothing
  <2>4. st.owner = call[c].worker /\ st.token.lease = call[c].lease
    OBVIOUS
  <2> HIDE DEF st
  <2> QED
    BY <2>1, <2>2, <2>3, <2>4 DEF HoldsFor
<1>8. ASSUME NEW d \in Clients, call'[d].step = "insert"
      PROVE  \/ call'[d] = call[d] /\ (state[call[d].task] # None => state'[call[d].task] = state[call[d].task])
             \/ HoldsFor(call[d].task, call[d].worker, call[d].lease)'
  <2>1. CASE d = c
    BY <1>6, <1>7, <1>8, <2>1
  <2>2. CASE d # c
    <3>1. call'[d] = call[d]
      BY <1>6, <2>2 DEF OnlyCall
    <3>2. call[d].task \in Tasks \ {t}
      BY <1>2, <1>8, <2>2, <3>1, Facts DEF OfTask, Exclusive, GInv, Served, Creates
    <3> QED
      BY <1>5, <3>1, <3>2
  <2> QED
    BY <2>1, <2>2
<1>9. ASSUME NEW d \in Clients, call'[d].step = "disown" PROVE call'[d] = call[d]
  BY <1>6, <1>9 DEF OnlyCall
<1> QED
  BY <1>3, <1>4, <1>5, <1>8, <1>9, OwnedKept

\* The inserted lease is of the worker that was made the owner.
LEMMA OwnedByInsert ==
  ASSUME Sane, Exclusive, IInv, GInv, LInv, Owned, NEW c \in Clients, Insert(c)
  PROVE  Owned'
<1> DEFINE r == [worker |-> call[c].worker, task |-> call[c].task, life |-> "active", over |-> FALSE]
<1>0. OfTask(call[c]) /\ OfLease(call[c], lease) /\ Cleared(c)
  BY Facts DEF LInv
<1>1. PICK t \in Tasks, l \in LeaseIds : t = call[c].task /\ l = call[c].lease
  BY <1>0 DEF Insert, At, OfTask, OfLease, Creates
<1>2. /\ call[c].step = "insert" /\ call[c].step \in Steps /\ LiveLeases(t) = {}
      /\ HoldsFor(t, call[c].worker, l)
  BY <1>0, <1>1 DEF Insert, At, Steps, Cleared, Owned
<1>3. r.task = t /\ r.worker = call[c].worker
  BY <1>1
<1>4. lease' = [lease EXCEPT ![l] = r] /\ Goto(c, "index") /\ UNCHANGED state
  BY <1>1 DEF Insert
<1> HIDE DEF r
<1>5. /\ LiveLeases(t)' \subseteq {l} /\ lease'[l].worker = call[c].worker
      /\ \A x \in Tasks \ {t} : /\ LiveLeases(x)' \subseteq LiveLeases(x)
                                /\ \A k \in LiveLeases(x)' : lease'[k] = lease[k]
  BY <1>2, <1>3, <1>4 DEF LiveLeases, IsLive, IInv, Shape
<1>6. OnlyCall(c) /\ call'[c].step = "index"
  BY <1>2, <1>4, GotoFacts, NotIdle DEF IInv, Steps
<1>7. ASSUME NEW x \in Tasks, NEW k \in LiveLeases(x)' PROVE HoldsFor(x, lease[k].worker, k)'
  <2>1. CASE x = t
    BY <1>2, <1>4, <1>5, <1>7, <2>1 DEF HoldsFor
  <2>2. CASE x # t
    BY <1>4, <1>5, <2>2 DEF HoldsFor, Owned
  <2> QED
    BY <2>1, <2>2
<1>8. ASSUME NEW d \in Clients
      PROVE  /\ call'[d].step = "insert" => HoldsFor(call[d].task, call[d].worker, call[d].lease)'
             /\ call'[d].step = "disown" => LiveLeases(call[d].task)' = {}
  <2>1. CASE d = c
    BY <1>6, <2>1
  <2>2. CASE d # c
    <3>1. call'[d] = call[d]
      BY <1>6, <2>2 DEF OnlyCall
    <3>2. call'[d].step = "insert" => HoldsFor(call[d].task, call[d].worker, call[d].lease)'
      BY <1>4, <3>1 DEF Owned, HoldsFor
    <3>3. call'[d].step = "disown" => LiveLeases(call[d].task)' = {}
      BY <1>1, <1>2, <1>5, <2>2, <3>1, Facts DEF Owned, OfTask, Exclusive, GInv, Served, Creates, Releases
    <3> QED
      BY <3>2, <3>3
  <2> QED
    BY <2>1, <2>2
<1> QED
  BY <1>7, <1>8 DEF Owned

\* Every other step leaves the register alone.
LEMMA OwnedAside ==
  ASSUME Sane, IInv, LInv, Owned, [Next]_vars, UNCHANGED <<state, tokens, copy>>,
         \A c \in Clients : ~Insert(c) /\ ~AcquireLook(c) /\ ~AcquireTake(c)
  PROVE  Owned'
<1>1. SameLive
  BY LiveStep
<1>2. ASSUME UNCHANGED call PROVE Owned'
  BY <1>1, <1>2, OwnedKept
<1>3. ASSUME NEW c \in Clients, OnlyCall(c), call'[c].step # "insert",
             call'[c].step = "disown" => LiveLeases(call[c].task)' = {}
      PROVE  Owned'
  <2>1. ASSUME NEW d \in Clients, call'[d].step = "insert" PROVE call'[d] = call[d]
    BY <1>3, <2>1 DEF OnlyCall
  <2>2. ASSUME NEW d \in Clients, call'[d].step = "disown"
        PROVE  call'[d] = call[d] \/ LiveLeases(call[d].task)' = {}
    BY <1>3, <2>2 DEF OnlyCall
  <2> QED
    BY <1>1, <2>1, <2>2, OwnedKept
<1>4. ASSUME NEW c \in Clients, Step(c) PROVE Owned'
  <2>1. OnlyCall(c)
    BY <1>4, CallMoves
  <2>2. CASE Unindex(c)
    <3>1. PICK t \in Tasks : t = call[c].task
      BY <2>2, Facts DEF Unindex, At, OfTask, Releases
    <3>2. call[c].step = "unindex" /\ call[c].step \in Steps /\ LiveLeases(t) = {}
      BY <2>2, <3>1 DEF Unindex, At, Steps, LInv, Cleared
    <3>3. call'[c].step = "disown" /\ call'[c].task = t
      BY <2>2, <3>1, <3>2, GotoFacts, NotIdle DEF Unindex, IInv, Steps
    <3>4. LiveLeases(t)' = {}
      BY <2>2, <3>2 DEF Unindex, LiveLeases, IsLive
    <3> QED
      BY <1>3, <2>1, <3>3, <3>4
  <2>3. CASE ~Unindex(c)
    <3>1. ASSUME NEW s \in Steps \ {"insert", "disown"}, call[c].step \in Steps, Goto(c, s)
          PROVE  call'[c].step \notin {"insert", "disown"}
      BY <3>1, GotoFacts, NotIdle DEF IInv
    <3>2. ASSUME Done(c) PROVE call'[c].step \notin {"insert", "disown"}
      BY <3>2, DoneFacts DEF IInv
    <3>3. CASE Lookup(c)
      <4> DEFINE old == byTask[call[c].task]
                 s == IF old = None THEN "look" ELSE "revokeOld"
      <4>1. call[c].step \in Steps /\ s \in {"look", "revokeOld"}
            /\ call' = [call EXCEPT ![c] = [call[c] EXCEPT !.step = s, !.lease = old]]
        BY <3>3 DEF Lookup, At, Steps
      <4> HIDE DEF old, s
      <4>2. call'[c].step = s
        BY <4>1, Facts DEF IInv, Shape
      <4> QED
        BY <1>3, <2>1, <4>1, <4>2
    <3>4. CASE RevokeOld(c) \/ Index(c) \/ Disown(c) \/ RevokeLease(c) \/ RevokeIndex(c) \/ RevokeWorker(c)
      <4>1. call'[c].step \notin {"insert", "disown"}
        BY <3>1, <3>4 DEF RevokeOld, Index, Disown, RevokeLease, RevokeIndex, RevokeWorker, At, Steps
      <4> QED
        BY <1>3, <2>1, <4>1
    <3>5. CASE Assign(c) \/ ClearWorker(c) \/ RegisterNew(c)
      BY <1>3, <2>1, <3>2, <3>5 DEF Assign, ClearWorker, RegisterNew
    <3> QED
      BY <1>4, <2>3, <3>3, <3>4, <3>5 DEF Step
  <2> QED
    BY <2>2, <2>3
<1>5. ASSUME NEW c \in Clients, NEW w \in Workers, NEW t \in Tasks, CreateLease(c, w, t)
      PROVE  Owned'
  <2>1. OnlyCall(c) /\ call'[c].step = "lookup"
    BY <1>5, BeginFacts DEF CreateLease, IInv, Steps
  <2> QED
    BY <1>3, <2>1
<1>6. ASSUME NEW c \in Clients, NEW l \in LeaseIds, ReleaseLease(c, l) PROVE Owned'
  <2>1. lease[l] \in LeaseType
    BY <1>6, TaskOfLease DEF ReleaseLease, IsLive
  <2>2. OnlyCall(c) /\ call'[c].step = "unindex"
    BY <1>6, <2>1, BeginFacts DEF ReleaseLease, IInv, Steps, LeaseType
  <2> QED
    BY <1>3, <2>2
<1>7. ASSUME NEW c \in Replacers, NEW w \in Workers, NEW n \in Workers, Replace(c, w, n)
      PROVE  Owned'
  <2>1. c \in Clients
    BY LeasesAssumption
  <2>2. CASE Begin(c, "revoke", w, None, active[w], n)
    <3>1. active[w] \in LeaseIds \union {None}
      BY DEF IInv, Shape
    <3>2. OnlyCall(c) /\ call'[c].step = "revoke"
      BY <2>1, <2>2, <3>1, BeginFacts DEF IInv, Steps
    <3> QED
      BY <1>3, <2>1, <3>2
  <2> QED
    BY <1>2, <1>7, <2>2 DEF Replace
<1>8. ASSUME \/ \E w \in Workers : Register(w) \/ Unregister(w) \/ Tick(w)
             \/ \E w \in Workers, l \in LeaseIds \union {None} : HeartbeatOf(w, l)
             \/ UpdateHealth \/ DetectExpired \/ UNCHANGED vars
             \/ \E l \in LeaseIds : Renew(l) \/ Expire(l)
      PROVE  UNCHANGED call
  BY <1>8 DEF Register, Unregister, Tick, HeartbeatOf, UpdateHealth, DetectExpired, Renew, Expire, vars
<1> QED
  BY <1>2, <1>4, <1>5, <1>6, <1>7, <1>8 DEF Next

\* Between the calls that create or release leases of a task, three maps agree on it: a
\* valid lease is the one the index names, its worker owns the task, and the owner's
\* token is for that lease.
THEOREM LeaseMapsKept ==
  ASSUME Sane, Exclusive PROVE Spec => []LeaseMapsAgree
<1>1. Init => LInv /\ GInv /\ Owned
  BY DEF Init, LInv, Named, Cleared, LiveLeases, IsLive, Idle, GInv, Served, UpToDate, Creates,
         Releases, Owned
<1>2. IInv /\ GInv /\ Own!OwnTypeOK /\ [Next]_vars => GInv'
  BY CopiesStep
<1>3. IInv /\ GInv /\ LInv /\ [Next]_vars => LInv'
  BY ValidInductive
<1>4. IInv /\ GInv /\ LInv /\ Owned /\ Own!OwnTypeOK /\ [Next]_vars => Owned'
  <2> SUFFICES ASSUME IInv, GInv, LInv, Owned, Own!OwnTypeOK, [Next]_vars PROVE Owned'
    OBVIOUS
  <2>1. ASSUME NEW c \in Clients, Step(c)
        PROVE  AcquireLook(c) \/ AcquireTake(c) \/ Disown(c) \/ UNCHANGED <<state, tokens, copy>>
    BY <2>1 DEF Step, Lookup, RevokeOld, Insert, Index, Assign, Unindex, ClearWorker,
                RevokeLease, RevokeIndex, RevokeWorker, RegisterNew
  <2>2. \/ \E c \in Clients : AcquireLook(c) \/ AcquireTake(c) \/ Disown(c)
        \/ UNCHANGED <<state, tokens, copy>>
    BY <2>1 DEF Next, Register, Unregister, Tick, HeartbeatOf, UpdateHealth, DetectExpired, Renew,
                Expire, CreateLease, ReleaseLease, Replace, vars
  <2> QED
    BY <2>2, OwnedByUse, OwnedByInsert, OwnedAside
<1>5. IInv /\ LInv /\ Owned => LeaseMapsAgree
  <2> SUFFICES ASSUME LInv, Owned, NEW t \in Tasks, Quiet(t), NEW l \in LiveLeases(t)
               PROVE  byTask[t] = l /\ Own!IsOwner(t, lease[l].worker) /\ state[t].token.lease = l
    BY DEF LeaseMapsAgree
  <2>1. byTask[t] = l
    BY DEF LInv, Named, Quiet, Creating, Steps
  <2> QED
    BY <2>1 DEF Owned, HoldsFor, Own!IsOwner
<1>6. Own!OwnSpec => []Own!OwnTypeOK
  BY OwnTypeCorrect
<1> QED
  BY <1>1, <1>2, <1>3, <1>4, <1>5, <1>6, CallsGrounded, OwnershipImplemented, PTL DEF Spec
================================================================================
