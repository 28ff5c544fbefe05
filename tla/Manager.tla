------------------------------ MODULE Manager -------------------------------
(***************************************************************************)
(* The session table (Manager in internal/server/manager.go): creation     *)
(* under the limit, lookup, listing, deletion and the lazy expiry sweep,   *)
(* with the two levels of locks: Manager.mu over the table, and the mu of  *)
(* each session, which List and the sweep take while they hold the first.  *)
(*                                                                         *)
(* What a request does inside the session is in CpmSession and             *)
(* BareSession; here it takes the session's lock for a while.              *)
(***************************************************************************)
EXTENDS Naturals, FiniteSets

CONSTANTS
  Clients,      \* goroutines that serve requests
  Ids,          \* what randomID returns; never the same twice
  MaxSessions,  \* Config.MaxSessions
  TTL,          \* Config.SessionTTL
  MaxTime,      \* bound on the clock
  NoOne         \* nobody holds Manager.mu; no session

ASSUME ManagerAssumption ==
  /\ MaxSessions \in Nat \ {0} /\ TTL \in Nat /\ MaxTime \in Nat
  /\ NoOne \notin Clients \cup Ids

VARIABLES
  now,      \* the clock
  mapped,   \* the keys of Manager.sessions
  expires,  \* ManagedSession.ExpiresAt of the sessions in the table
  life,     \* what a session owns: a directory, or only its backend
  mu,       \* holder of Manager.mu
  pc,       \* where each client stands in its request
  ref,      \* the session each client works on
  seen,     \* the time each client read in cleanupExpiredLocked
  left      \* the sessions List still has to describe

tableVars == <<mapped, expires, life>>
clientVars == <<pc, ref, seen, left>>
vars == <<now, tableVars, mu, clientVars>>

(* A session id is unused; its session owns its resources; close(), or     *)
(* cleanup() of a creation that failed, was called once, or once too often.*)
Lives == {"unused", "open", "released", "twice"}

Init ==
  /\ now = 0
  /\ mapped = {}
  /\ expires = [id \in Ids |-> 0]
  /\ life = [id \in Ids |-> "unused"]
  /\ mu = NoOne
  /\ pc = [c \in Clients |-> "ready"]
  /\ ref = [c \in Clients |-> NoOne]
  /\ seen = [c \in Clients |-> 0]
  /\ left = [c \in Clients |-> {}]

Goto(c, label) == pc' = [pc EXCEPT ![c] = label]

(* The request is answered: its local variables are gone.                  *)
Answer(c) ==
  /\ Goto(c, "ready")
  /\ ref' = [ref EXCEPT ![c] = NoOne]
  /\ seen' = [seen EXCEPT ![c] = 0]

Holds(c) == mu = c
Unlock == mu' = NoOne

(* The mu of a session is held by the client that works inside it.         *)
SessionMuFree(id) == \A c \in Clients : ~(pc[c] = "inside" /\ ref[c] = id)

Tick ==
  /\ now < MaxTime
  /\ now' = now + 1
  /\ UNCHANGED <<tableVars, mu, clientVars>>

-----------------------------------------------------------------------------
(* A request comes.                                                        *)
Arrive(c) ==
  /\ pc[c] = "ready"
  /\ Goto(c, "arrived")
  /\ UNCHANGED <<now, tableVars, mu, ref, seen, left>>

(* Create, List and Get take the lock and sweep first.                     *)

Enter(c) ==
  /\ pc[c] = "arrived"
  /\ mu = NoOne
  /\ mu' = c
  /\ seen' = [seen EXCEPT ![c] = now]
  /\ Goto(c, "sweep")
  /\ UNCHANGED <<now, tableVars, ref, left>>

(* Mutant of Expired: sessions expire one tick late.                       *)
ExpiredLate(c) == {id \in mapped : seen[c] > expires[id] + 1}

(* ExpiresAt as cleanupExpiredLocked compares it: now.After(ExpiresAt).    *)
Expired(c) == {id \in mapped : seen[c] > expires[id]}

(* delete(m.sessions, id): the record is forgotten with its key.           *)
Forget(id) ==
  /\ mapped' = mapped \ {id}
  /\ expires' = [expires EXCEPT ![id] = 0]

(* The call of cleanup() for the temporary directory, or of Stop() for a   *)
(* bare backend.  Whether cleanup() removed the directory is another       *)
(* matter, which Drive is about: the sweep and a failed creation ignore    *)
(* its error, and none of the callers tries again.                         *)
Release(id) ==
  life' = [life EXCEPT ![id] = IF @ = "open" THEN "released" ELSE "twice"]

(* An expired session is closed with Manager.mu held.                      *)
SweepOne(c) ==
  /\ pc[c] = "sweep" /\ Holds(c)
  /\ \E id \in Expired(c) :
       /\ SessionMuFree(id)
       /\ Forget(id)
       /\ Release(id)
  /\ UNCHANGED <<now, mu, clientVars>>

Ops == {"createCPM", "createBare", "list", "get"}

(* The sweep is over: the lock is held until the operation is done.        *)
SweepDone(c) ==
  /\ pc[c] = "sweep" /\ Holds(c)
  /\ Expired(c) = {}
  /\ \E op \in Ops :
       /\ Goto(c, op)
       /\ left' = [left EXCEPT ![c] = IF op = "list" THEN mapped ELSE {}]
  /\ UNCHANGED <<now, tableVars, mu, ref, seen>>

-----------------------------------------------------------------------------
(* createCPM and createBare, with Manager.mu held throughout.              *)

(* Mutant of Full: the comparison lets one session too many in.            *)
FullTooLate == Cardinality(mapped) > MaxSessions

Full == Cardinality(mapped) >= MaxSessions

(* ErrSessionLimit.                                                        *)
CreateRefused(c) ==
  /\ pc[c] \in {"createCPM", "createBare"} /\ Holds(c)
  /\ Full
  /\ Unlock
  /\ Answer(c)
  /\ UNCHANGED <<now, tableVars, left>>

(* randomID or NewTemporaryHostDrive fails.                                *)
CreateFails(c) ==
  /\ pc[c] \in {"createCPM", "createBare"} /\ Holds(c)
  /\ ~Full
  /\ Unlock
  /\ Answer(c)
  /\ UNCHANGED <<now, tableVars, left>>

(* The directory exists before the session does.                           *)
MakeDrive(c) ==
  /\ pc[c] = "createCPM" /\ Holds(c)
  /\ ~Full
  /\ \E id \in Ids :
       /\ life[id] = "unused"
       /\ life' = [life EXCEPT ![id] = "open"]
       /\ ref' = [ref EXCEPT ![c] = id]
  /\ Goto(c, "prompt")
  /\ UNCHANGED <<now, mapped, expires, mu, seen, left>>

(* The session is entered in the table, and the lock released.             *)
Register(c, id) ==
  /\ mapped' = mapped \cup {id}
  /\ expires' = [expires EXCEPT ![id] = now + TTL]
  /\ Unlock
  /\ Answer(c)

FinishCPM(c) ==
  /\ pc[c] = "prompt" /\ Holds(c)
  /\ Register(c, ref[c])
  /\ UNCHANGED <<now, life, left>>

(* Mutant of AbandonCPM: the failure of Prompt returns without cleanup().  *)
AbandonWithoutCleanup(c) ==
  /\ pc[c] = "prompt" /\ Holds(c)
  /\ Unlock
  /\ Answer(c)
  /\ UNCHANGED <<now, tableVars, left>>

(* session.New or Prompt fails: the directory is removed again.            *)
AbandonCPM(c) ==
  /\ pc[c] = "prompt" /\ Holds(c)
  /\ Release(ref[c])
  /\ Unlock
  /\ Answer(c)
  /\ UNCHANGED <<now, mapped, expires, left>>

CreateBare(c) ==
  /\ pc[c] = "createBare" /\ Holds(c)
  /\ ~Full
  /\ \E id \in Ids :
       /\ life[id] = "unused"
       /\ life' = [life EXCEPT ![id] = "open"]
       /\ Register(c, id)
  /\ UNCHANGED <<now, left>>

-----------------------------------------------------------------------------
(* List: info() of every session, which takes its lock under Manager.mu.   *)

ListOne(c) ==
  /\ pc[c] = "list" /\ Holds(c)
  /\ \E id \in left[c] :
       /\ SessionMuFree(id)
       /\ left' = [left EXCEPT ![c] = @ \ {id}]
  /\ UNCHANGED <<now, tableVars, mu, pc, ref, seen>>

ListDone(c) ==
  /\ pc[c] = "list" /\ Holds(c)
  /\ left[c] = {}
  /\ Unlock
  /\ Answer(c)
  /\ UNCHANGED <<now, tableVars, left>>

-----------------------------------------------------------------------------
(* Get, and what every request does with the session it found.             *)

(* Mutant of Get: the not-found answer leaves Manager.mu locked.           *)
GetKeepingLock(c) ==
  /\ pc[c] = "get" /\ Holds(c)
  /\ \/ \E id \in mapped :
          /\ ref' = [ref EXCEPT ![c] = id]
          /\ Goto(c, "found")
          /\ Unlock
          /\ UNCHANGED seen
     \/ Answer(c) /\ UNCHANGED mu
  /\ UNCHANGED <<now, mapped, expires, life, left>>

(* Mutant of Get: a missing session is not told from one that was found.   *)
GetUnchecked(c) ==
  /\ pc[c] = "get" /\ Holds(c)
  /\ Unlock
  /\ \/ \E id \in mapped :
          /\ ref' = [ref EXCEPT ![c] = id]
     \/ UNCHANGED ref
  /\ Goto(c, "found")
  /\ UNCHANGED <<now, mapped, expires, life, seen, left>>

Get(c) ==
  /\ pc[c] = "get" /\ Holds(c)
  /\ Unlock
  /\ \/ \E id \in mapped :
          /\ ref' = [ref EXCEPT ![c] = id]
          /\ Goto(c, "found")
          /\ UNCHANGED seen
     \/ Answer(c)
  /\ UNCHANGED <<now, mapped, expires, life, left>>

EnterSession(c) ==
  /\ pc[c] = "found"
  /\ SessionMuFree(ref[c])
  /\ Goto(c, "inside")
  /\ UNCHANGED <<now, tableVars, mu, ref, seen, left>>

LeaveSession(c) ==
  /\ pc[c] = "inside"
  /\ Answer(c)
  /\ UNCHANGED <<now, tableVars, mu, left>>

-----------------------------------------------------------------------------
(* Delete: the lock of the table is released before close() is called.     *)

Delete(c) ==
  /\ pc[c] = "arrived"
  /\ mu = NoOne
  /\ \E id \in mapped :
       /\ Forget(id)
       /\ ref' = [ref EXCEPT ![c] = id]
  /\ Goto(c, "close")
  /\ UNCHANGED <<now, life, mu, seen, left>>

(* Mutant of Close: Delete answers without close().                        *)
CloseNothing(c) ==
  /\ pc[c] = "close"
  /\ Answer(c)
  /\ UNCHANGED <<now, tableVars, mu, left>>

Close(c) ==
  /\ pc[c] = "close"
  /\ SessionMuFree(ref[c])
  /\ Release(ref[c])
  /\ Answer(c)
  /\ UNCHANGED <<now, mapped, expires, mu, left>>

-----------------------------------------------------------------------------
(* The steps that wait for the lock of a session, and the others.          *)
Contend(c) == SweepOne(c) \/ ListOne(c) \/ EnterSession(c) \/ Close(c)

Proceed(c) ==
  \/ SweepDone(c) \/ CreateRefused(c) \/ CreateFails(c) \/ MakeDrive(c)
  \/ FinishCPM(c) \/ AbandonCPM(c) \/ CreateBare(c) \/ ListDone(c) \/ Get(c)
  \/ LeaveSession(c)

Serve(c) == Arrive(c) \/ Enter(c) \/ Delete(c) \/ Contend(c) \/ Proceed(c)

Next == Tick \/ \E c \in Clients : Serve(c)

SafetySpec == Init /\ [][Next]_vars

(* Goroutines that can run do run, sync.Mutex serves its waiters, and the  *)
(* clock goes on.  Nobody has to send requests.                            *)
Fairness ==
  /\ \A c \in Clients :
       SF_vars(Enter(c) \/ Delete(c)) /\ SF_vars(Contend(c)) /\ WF_vars(Proceed(c))
  /\ WF_vars(Tick)

Spec == SafetySpec /\ Fairness

-----------------------------------------------------------------------------
Labels ==
  Ops \cup {"ready", "arrived", "sweep", "prompt", "found", "inside", "close"}

(* Type invariant: the table, the locks and the clients.                   *)
TypeOK ==
  /\ now \in Nat
  /\ mapped \subseteq Ids /\ IsFiniteSet(mapped)
  /\ expires \in [Ids -> Nat]
  /\ life \in [Ids -> Lives]
  /\ mu \in Clients \cup {NoOne}
  /\ pc \in [Clients -> Labels]
  /\ ref \in [Clients -> Ids \cup {NoOne}]
  /\ \A c \in Clients :
       pc[c] \in {"prompt", "found", "inside", "close"} => ref[c] \in Ids
  /\ seen \in [Clients -> Nat]
  /\ left \in [Clients -> SUBSET Ids]

(* There are never more sessions than -max-sessions (docs/sicurezza.md:15):*)
(* the count is taken and the session entered under one lock.              *)
LimitRespected == Cardinality(mapped) <= MaxSessions

(* The sessions that hold resources are those of the table and those that  *)
(* a client is creating or closing: nothing leaks when a creation fails    *)
(* half-way or a session leaves the table, nothing is offered that was     *)
(* released, and nobody else closes what one client is closing.            *)
Owners(id) == {c \in Clients : pc[c] \in {"prompt", "close"} /\ ref[c] = id}

OpenIsOwned ==
  \A id \in Ids :
    /\ life[id] = "open" <=> id \in mapped \/ Owners(id) # {}
    /\ id \in mapped => Owners(id) = {}
    /\ \A c, d \in Owners(id) : c = d

(* Two clients, or a client and the sweep, never close the same session:   *)
(* its directory is removed once.                                          *)
ReleasedOnce == \A id \in Ids : life[id] # "twice"

(* Manager.mu is held exactly from the sweep to the end of an operation.   *)
LockHeld == \A c \in Clients : pc[c] \in Ops \cup {"sweep", "prompt"} <=> mu = c

(* After the sweep no session in the table had expired when it began.      *)
Swept ==
  \A c \in Clients : pc[c] \in Ops => \A id \in mapped : seen[c] <= expires[id]

(* The room that was found is still there when the session is entered.     *)
RoomKept ==
  \A c \in Clients : pc[c] = "prompt" => Cardinality(mapped) < MaxSessions

(* The inductive invariant of the table: what makes the properties above   *)
(* true of every step, the lock above all.                                 *)
Inv ==
  /\ TypeOK /\ LockHeld /\ Swept /\ RoomKept
  /\ LimitRespected /\ OpenIsOwned /\ ReleasedOnce

(* A request never gets a session that had expired when it came, and one   *)
(* is refused for lack of room only when so many live sessions exist; nor  *)
(* does a session leave the table under the lock of a request (only in the *)
(* sweep, then) before it has expired.                                     *)
NoExpiredServed ==
  [][\A c \in Clients :
       /\ pc[c] = "get" /\ pc'[c] = "found" => seen[c] <= expires[ref'[c]]
       /\ CreateRefused(c) =>
            Cardinality({id \in mapped : seen[c] <= expires[id]}) >= MaxSessions
       /\ Holds(c) => \A id \in mapped \ mapped' : seen[c] > expires[id]]_vars

(* Every request is answered, and Manager.mu is never kept: the nesting of *)
(* the locks in List and the sweep cannot make everyone wait.              *)
RequestsAnswered == \A c \in Clients : pc[c] # "ready" ~> pc[c] = "ready"

(* A session that left the table, or was never entered, is closed: its     *)
(* resources are released as far as cleanup() succeeds.                    *)
RemovedIsReleased ==
  \A id \in Ids :
    life[id] = "open" /\ id \notin mapped ~> life[id] = "released" \/ id \in mapped
=============================================================================
