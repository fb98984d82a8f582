------------------------------- MODULE Ownership -------------------------------
(***************************************************************************)
(* The ownership register of src/src/pipeline/ownership.rs: per task a     *)
(* generation, an owner and the owner's token.  acquire decides on a copy  *)
(* it takes under one write lock (Look) and stores the outcome under the   *)
(* next (Take), so whatever happens in between is overwritten.  release    *)
(* and revoke are one critical section each.  The second map of tokens is  *)
(* only written while the first one is locked.                             *)
(***************************************************************************)
EXTENDS Integers

CONSTANTS
  Callers,     \* concurrent calls of acquire
  Tasks,
  Owners,      \* OwnerId: workers and sessions, each with a name
  Leases,      \* OwnerToken.lease_id
  None

VARIABLES
  state,       \* state[t]: OwnershipState, None before get_or_create
  tokens,      \* tokens[t]: the token map
  copy         \* copy[c]: the state caller c decides on, None between calls

ownVars == <<state, tokens, copy>>

Token(o, g, l) == [owner |-> o, generation |-> g, lease |-> l]
TokenType == [owner : Owners, generation : Nat, lease : Leases \union {None}]
StateType == [generation : Nat, owner : Owners \union {None}, token : TokenType \union {None}]

OwnTypeOK ==
  /\ state \in [Tasks -> StateType \union {None}]
  /\ tokens \in [Tasks -> TokenType \union {None}]
  /\ copy \in [Callers -> StateType \union {None}]

OwnInit ==
  /\ state = [t \in Tasks |-> None]
  /\ tokens = [t \in Tasks |-> None]
  /\ copy = [c \in Callers |-> None]

Unowned(g) == [generation |-> g, owner |-> None, token |-> None]
Entry(t)   == IF state[t] = None THEN Unowned(0) ELSE state[t]

\* acquire, first section: get_or_create, and a clone of what it found.
Look(c, t) ==
  /\ copy[c] = None
  /\ state' = [state EXCEPT ![t] = Entry(t)]
  /\ copy' = [copy EXCEPT ![c] = Entry(t)]
  /\ UNCHANGED tokens

\* The copy says another entity owns the task.
Conflict(c, o) == copy[c].owner \notin {None, o}

\* The generation acquire writes.
NextGeneration(c, t) == copy[c].generation + 1

\* acquire, second section: the new owner and its token.
Take(c, t, o, l) ==
  /\ copy[c] # None
  /\ LET tok == Token(o, NextGeneration(c, t), l) IN
     /\ state' = [state EXCEPT ![t] =
          [generation |-> tok.generation, owner |-> o, token |-> tok]]
     /\ tokens' = [tokens EXCEPT ![t] = tok]
  /\ copy' = [copy EXCEPT ![c] = None]

\* acquire without force gives up on a conflict.
Refuse(c, o) ==
  /\ copy[c] # None /\ Conflict(c, o)
  /\ copy' = [copy EXCEPT ![c] = None]
  /\ UNCHANGED <<state, tokens>>

IsOwner(t, o) == state[t] # None /\ state[t].owner = o

\* Mutant: the token map keeps the token.
Release_M(t, o) ==
  /\ state' = [state EXCEPT ![t] = IF IsOwner(t, o) THEN Unowned(@.generation) ELSE @]
  /\ UNCHANGED <<tokens, copy>>
\* release: for the current owner only; the generation stays.
Release(t, o) ==
  /\ IF IsOwner(t, o)
     THEN /\ state' = [state EXCEPT ![t] = Unowned(@.generation)]
          /\ tokens' = [tokens EXCEPT ![t] = None]
     ELSE UNCHANGED <<state, tokens>>
  /\ UNCHANGED copy

\* revoke: no owner, and a generation no earlier token reaches.
Revoke(t) ==
  /\ state[t] # None
  /\ state' = [state EXCEPT ![t] = Unowned(@.generation + 1)]
  /\ tokens' = [tokens EXCEPT ![t] = None]
  /\ UNCHANGED copy

\* validate_token: not of an older generation, and of the current owner.  A task that
\* has none is compared with the session without a name, which is not in Owners.
Validates(t, tok) ==
  /\ state[t] # None
  /\ tok.generation >= state[t].generation
  /\ tok.owner = state[t].owner

\* can_update: an unowned task may be updated by anybody.
CanUpdate(t, o) == state[t] = None \/ state[t].owner \in {None, o}

-------------------------------------------------------------------------------
\* The register by itself, with callers that overlap at will.
OwnNext ==
  \/ \E c \in Callers, t \in Tasks : Look(c, t)
  \/ \E c \in Callers, t \in Tasks, o \in Owners, l \in Leases \union {None} : Take(c, t, o, l)
  \/ \E c \in Callers, o \in Owners : Refuse(c, o)
  \/ \E t \in Tasks, o \in Owners : Release(t, o)
  \/ \E t \in Tasks : Revoke(t)

OwnSpec == OwnInit /\ [][OwnNext]_ownVars

\* The token in the state, the token map, the owner and the generation are written at
\* four places each and always agree: an owned task has one token, of its owner and its
\* generation, in both maps, and a task without an owner has none (ownership.rs:369).
TokensAgree ==
  \A t \in Tasks :
    IF state[t] = None THEN tokens[t] = None
    ELSE /\ tokens[t] = state[t].token
         /\ IF state[t].owner = None THEN tokens[t] = None
            ELSE /\ tokens[t] # None
                 /\ tokens[t].owner = state[t].owner
                 /\ tokens[t].generation = state[t].generation

\* What the owner was given is accepted, and whatever else is accepted names the owner:
\* a worker that was taken over can no longer write with its token (ownership.rs:445).
OnlyOwnersValidate ==
  \A t \in Tasks :
    /\ tokens[t] # None => Validates(t, tokens[t])
    /\ \A o \in Owners, g \in Nat, l \in Leases \union {None} :
         Validates(t, Token(o, g, l)) => /\ tokens[t] # None /\ tokens[t].owner = o
                                         /\ tokens[t].generation <= g
================================================================================
