--------------------------- MODULE ManagerProofs ----------------------------
(***************************************************************************)
(* Theorems about Manager, for every set of clients and of session ids and *)
(* every limit, TTL and bound of the clock: the type invariant, the limit  *)
(* of sessions, the ownership of their resources, their single release,    *)
(* and that no request is given an expired session.                        *)
(***************************************************************************)
EXTENDS Manager, FiniteSetTheorems, TLAPS

(* The initial state satisfies the inductive invariant.                    *)
LEMMA InitInv == Init => Inv
<1> SUFFICES ASSUME Init PROVE Inv
  OBVIOUS
<1> USE DEF Init
<1>1. TypeOK
  BY FS_EmptySet DEF TypeOK, Lives, Labels, Ops
<1>2. LockHeld /\ Swept /\ RoomKept
  BY ManagerAssumption DEF LockHeld, Swept, RoomKept, Ops
<1>3. LimitRespected
  BY FS_EmptySet, ManagerAssumption DEF LimitRespected
<1>4. OpenIsOwned
  BY DEF OpenIsOwned, Owners
<1>5. ReleasedOnce
  BY DEF ReleasedOnce
<1> QED BY <1>1, <1>2, <1>3, <1>4, <1>5 DEF Inv


(* Every step keeps the types.                                             *)
LEMMA TypeStep ==
  ASSUME TypeOK, Next PROVE TypeOK'
<1> USE DEF TypeOK, Goto, Answer, Unlock, Labels, Ops, tableVars, clientVars
<1>1. CASE Tick
  BY <1>1 DEF Tick
<1>2. ASSUME NEW c \in Clients, Enter(c) PROVE TypeOK'
  BY <1>2 DEF Enter
<1>3. ASSUME NEW c \in Clients, Delete(c) PROVE TypeOK'
  BY <1>3, FS_RemoveElement DEF Delete, Forget
<1>4. ASSUME NEW c \in Clients, Contend(c) PROVE TypeOK'
  <2> USE DEF Lives, Release
  <2>1. CASE SweepOne(c)
    BY <2>1, FS_RemoveElement DEF SweepOne, Forget, Expired
  <2>2. CASE ListOne(c)
    BY <2>2 DEF ListOne
  <2>3. CASE EnterSession(c)
    BY <2>3 DEF EnterSession
  <2>4. CASE Close(c)
    BY <2>4 DEF Close
  <2> QED BY <1>4, <2>1, <2>2, <2>3, <2>4 DEF Contend
<1>5. ASSUME NEW c \in Clients, Proceed(c) PROVE TypeOK'
  <2>1. CASE SweepDone(c)
    BY <2>1 DEF SweepDone
  <2>2. CASE CreateRefused(c) \/ CreateFails(c) \/ ListDone(c) \/ LeaveSession(c)
    BY <2>2 DEF CreateRefused, CreateFails, ListDone, LeaveSession
  <2>3. CASE MakeDrive(c)
    BY <2>3 DEF MakeDrive, Lives
  <2>4. CASE FinishCPM(c)
    <3>1. ref[c] \in Ids
      BY <2>4 DEF FinishCPM
    <3>2. mapped' \subseteq Ids /\ IsFiniteSet(mapped')
      BY <2>4, <3>1, FS_AddElement DEF FinishCPM, Register
    <3>3. expires' \in [Ids -> Nat]
      BY <2>4, <3>1, ManagerAssumption DEF FinishCPM, Register
    <3> QED BY <2>4, <3>2, <3>3 DEF FinishCPM, Register
  <2>5. CASE AbandonCPM(c)
    BY <2>5 DEF AbandonCPM, Release, Lives
  <2>6. CASE CreateBare(c)
    <3> PICK id \in Ids :
          life' = [life EXCEPT ![id] = "open"] /\ Register(c, id)
      BY <2>6 DEF CreateBare
    <3>1. mapped' \subseteq Ids /\ IsFiniteSet(mapped')
      BY FS_AddElement DEF Register
    <3>2. expires' \in [Ids -> Nat]
      BY ManagerAssumption DEF Register
    <3> QED BY <2>6, <3>1, <3>2 DEF CreateBare, Register, Lives
  <2>7. CASE Get(c)
    BY <2>7 DEF Get
  <2> QED BY <1>5, <2>1, <2>2, <2>3, <2>4, <2>5, <2>6, <2>7 DEF Proceed
<1>6. ASSUME NEW c \in Clients, Arrive(c) PROVE TypeOK'
  BY <1>6 DEF Arrive
<1> HIDE DEF TypeOK
<1> QED BY <1>1, <1>2, <1>3, <1>4, <1>5, <1>6 DEF Next, Serve

(* Every step keeps the lock with the clients inside its section.          *)
LEMMA LockStep ==
  ASSUME TypeOK, LockHeld, Next PROVE LockHeld'
<1> USE ManagerAssumption DEF TypeOK, LockHeld, Goto, Answer, Unlock, Holds, Labels, Ops, tableVars, clientVars
<1>1. CASE Tick
  BY <1>1 DEF Tick
<1>2. ASSUME NEW c \in Clients, Enter(c) PROVE LockHeld'
  BY <1>2 DEF Enter
<1>3. ASSUME NEW c \in Clients, Delete(c) PROVE LockHeld'
  BY <1>3 DEF Delete
<1>4. ASSUME NEW c \in Clients, Contend(c) PROVE LockHeld'
  BY <1>4 DEF Contend, SweepOne, ListOne, EnterSession, Close
<1>5. ASSUME NEW c \in Clients, Proceed(c) PROVE LockHeld'
  <2>1. CASE SweepDone(c) \/ MakeDrive(c)
    BY <2>1 DEF SweepDone, MakeDrive
  <2>2. CASE CreateRefused(c) \/ CreateFails(c) \/ ListDone(c)
    BY <2>2 DEF CreateRefused, CreateFails, ListDone
  <2>3. CASE FinishCPM(c) \/ AbandonCPM(c) \/ CreateBare(c)
    BY <2>3 DEF FinishCPM, AbandonCPM, CreateBare, Register
  <2>4. CASE Get(c)
    BY <2>4 DEF Get
  <2>5. CASE LeaveSession(c)
    BY <2>5 DEF LeaveSession
  <2> QED BY <1>5, <2>1, <2>2, <2>3, <2>4, <2>5 DEF Proceed
<1>6. ASSUME NEW c \in Clients, Arrive(c) PROVE LockHeld'
  BY <1>6 DEF Arrive
<1> HIDE DEF LockHeld
<1> QED BY <1>1, <1>2, <1>3, <1>4, <1>5, <1>6 DEF Next, Serve

(* A client inside the section of the lock is the only one there.          *)
LEMMA OnlyHolder ==
  ASSUME LockHeld, NEW c \in Clients, Holds(c),
         NEW d \in Clients, pc[d] \in Ops \cup {"sweep", "prompt"}
  PROVE  d = c
BY DEF LockHeld, Holds

(* Every step keeps the table swept for the operation that swept it.       *)
LEMMA SweptStep ==
  ASSUME TypeOK, LockHeld, Swept, Next PROVE Swept'
<1> USE ManagerAssumption, OnlyHolder DEF TypeOK, Swept, Goto, Answer, Labels, Ops, tableVars, clientVars
<1>1. CASE Tick
  BY <1>1 DEF Tick
<1>2. ASSUME NEW c \in Clients, Enter(c) PROVE Swept'
  BY <1>2 DEF Enter
<1>3. ASSUME NEW c \in Clients, Delete(c) PROVE Swept'
  <2>1. \A d \in Clients : pc[d] \notin Ops
    BY <1>3, ManagerAssumption DEF Delete, LockHeld
  <2>2. \A d \in Clients : pc'[d] \notin Ops
    BY <1>3, <2>1 DEF Delete
  <2> QED BY <2>2
<1>4. ASSUME NEW c \in Clients, Contend(c) PROVE Swept'
  <2>1. CASE SweepOne(c)
    BY <2>1 DEF SweepOne, Forget
  <2>2. CASE ListOne(c) \/ EnterSession(c) \/ Close(c)
    BY <2>2 DEF ListOne, EnterSession, Close
  <2> QED BY <1>4, <2>1, <2>2 DEF Contend
<1>5. ASSUME NEW c \in Clients, Proceed(c) PROVE Swept'
  <2>1. CASE SweepDone(c)
    BY <2>1 DEF SweepDone, Expired
  <2>2. CASE CreateRefused(c) \/ CreateFails(c) \/ ListDone(c) \/ LeaveSession(c)
    BY <2>2 DEF CreateRefused, CreateFails, ListDone, LeaveSession
  <2>3. CASE MakeDrive(c) \/ AbandonCPM(c)
    BY <2>3 DEF MakeDrive, AbandonCPM
  <2>4. CASE FinishCPM(c) \/ CreateBare(c)
    <3>1. \A d \in Clients : pc[d] \in Ops => d = c
      BY <2>4 DEF FinishCPM, CreateBare
    <3>2. \A d \in Clients : pc'[d] \notin Ops
      BY <2>4, <3>1 DEF FinishCPM, CreateBare, Register
    <3> QED BY <3>2
  <2>5. CASE Get(c)
    BY <2>5 DEF Get
  <2> QED BY <1>5, <2>1, <2>2, <2>3, <2>4, <2>5 DEF Proceed
<1>6. ASSUME NEW c \in Clients, Arrive(c) PROVE Swept'
  BY <1>6 DEF Arrive
<1> HIDE DEF Swept
<1> QED BY <1>1, <1>2, <1>3, <1>4, <1>5, <1>6 DEF Next, Serve

(* Every step keeps the limit, and the room a creation has found.          *)
LEMMA RoomStep ==
  ASSUME TypeOK, LockHeld, RoomKept, LimitRespected, Next
  PROVE  RoomKept' /\ LimitRespected'
<1> USE DEF RoomKept, LimitRespected
<1>0. Cardinality(mapped) \in Nat /\ MaxSessions \in Nat
  BY FS_CardinalityType, ManagerAssumption DEF TypeOK
<1> DEFINE P(c) == pc[c] = "prompt"
<1>a. ASSUME mapped' = mapped, \A d \in Clients : P(d)' => P(d)
      PROVE  RoomKept' /\ LimitRespected'
  BY <1>a, <1>0
<1>b. ASSUME NEW id, Forget(id), \A d \in Clients : P(d)' => P(d)
      PROVE  RoomKept' /\ LimitRespected'
  <2>0. IsFiniteSet(mapped) /\ mapped' = mapped \ {id}
    BY <1>b DEF Forget, TypeOK
  <2>1. /\ Cardinality(mapped') \in {Cardinality(mapped), Cardinality(mapped) - 1}
        /\ IsFiniteSet(mapped')
    BY <2>0, FS_RemoveElement
  <2>2. Cardinality(mapped') \in Nat
    BY <2>1, FS_CardinalityType
  <2> QED BY <1>b, <1>0, <2>1, <2>2
<1>c. ASSUME NEW c \in Clients, NEW id, Register(c, id), Holds(c),
             Cardinality(mapped) < MaxSessions
      PROVE  RoomKept' /\ LimitRespected'
  <2>0. IsFiniteSet(mapped) /\ mapped' = mapped \cup {id}
    BY <1>c DEF Register, TypeOK
  <2>1. Cardinality(mapped') \in {Cardinality(mapped), Cardinality(mapped) + 1}
    BY <2>0, FS_AddElement
  <2>2. \A d \in Clients : ~P(d)'
    BY <1>c, OnlyHolder DEF Register, Answer, Goto, TypeOK
  <2> QED BY <1>c, <1>0, <2>1, <2>2
<1> USE DEF TypeOK, Goto, Answer, Labels, tableVars, clientVars
<1> HIDE DEF RoomKept, LimitRespected
<1>1. CASE Tick
  BY <1>1, <1>a DEF Tick
<1>2. ASSUME NEW c \in Clients, Enter(c) PROVE RoomKept' /\ LimitRespected'
  BY <1>2, <1>a DEF Enter
<1>3. ASSUME NEW c \in Clients, Delete(c) PROVE RoomKept' /\ LimitRespected'
  BY <1>3, <1>b DEF Delete
<1>4. ASSUME NEW c \in Clients, Contend(c) PROVE RoomKept' /\ LimitRespected'
  <2>1. CASE SweepOne(c)
    BY <2>1, <1>b DEF SweepOne
  <2>2. CASE ListOne(c) \/ EnterSession(c) \/ Close(c)
    BY <2>2, <1>a DEF ListOne, EnterSession, Close
  <2> QED BY <1>4, <2>1, <2>2 DEF Contend
<1>5. ASSUME NEW c \in Clients, Proceed(c) PROVE RoomKept' /\ LimitRespected'
  <2>1. CASE SweepDone(c)
    BY <2>1, <1>a DEF SweepDone, Ops
  <2>2. CASE CreateRefused(c) \/ CreateFails(c) \/ ListDone(c) \/ LeaveSession(c)
    BY <2>2, <1>a DEF CreateRefused, CreateFails, ListDone, LeaveSession
  <2>3. CASE AbandonCPM(c) \/ Get(c)
    BY <2>3, <1>a DEF AbandonCPM, Get
  <2>4. CASE MakeDrive(c)
    <3>1. Cardinality(mapped) < MaxSessions /\ mapped' = mapped
      BY <2>4, <1>0 DEF MakeDrive, Full
    <3> QED BY <3>1, <1>0 DEF RoomKept, LimitRespected
  <2>5. CASE FinishCPM(c)
    BY <2>5, <1>c DEF FinishCPM, RoomKept
  <2>6. CASE CreateBare(c)
    BY <2>6, <1>0, <1>c DEF CreateBare, Full
  <2> QED BY <1>5, <2>1, <2>2, <2>3, <2>4, <2>5, <2>6 DEF Proceed
<1>6. ASSUME NEW c \in Clients, Arrive(c) PROVE RoomKept' /\ LimitRespected'
  BY <1>6, <1>a DEF Arrive
<1> QED BY <1>1, <1>2, <1>3, <1>4, <1>5, <1>6 DEF Next, Serve

(* OpenIsOwned without the set of owners.                                  *)
Owns(c, id) == pc[c] \in {"prompt", "close"} /\ ref[c] = id

OwnedAlone(id) ==
  /\ life[id] = "open" <=> id \in mapped \/ \E c \in Clients : Owns(c, id)
  /\ id \in mapped => \A c \in Clients : ~Owns(c, id)
  /\ \A c, d \in Clients : Owns(c, id) /\ Owns(d, id) => c = d

(* Owns and OpenIsOwned say the same of the sessions.                      *)
LEMMA OwnedEquiv == OpenIsOwned <=> \A id \in Ids : OwnedAlone(id)
BY DEF OpenIsOwned, Owners, OwnedAlone, Owns

(* Every step keeps the resources owned, and releases nothing twice.       *)
LEMMA OwnedStep ==
  ASSUME TypeOK, LockHeld, OpenIsOwned, ReleasedOnce, Next
  PROVE  OpenIsOwned' /\ ReleasedOnce'
<1> DEFINE Goal == (\A id \in Ids : OwnedAlone(id))' /\ ReleasedOnce'
<1> SUFFICES Goal
  BY OwnedEquiv, PTL
<1>0. \A id \in Ids : OwnedAlone(id)
  BY OwnedEquiv
<1>a. ASSUME life' = life, mapped' = mapped,
             \A d \in Clients, id \in Ids : Owns(d, id)' <=> Owns(d, id)
      PROVE  Goal
  BY <1>a, <1>0 DEF OwnedAlone, ReleasedOnce
<1> HIDE DEF Goal
<1> USE <1>0, ManagerAssumption DEF TypeOK, Goto, Answer, Labels, Ops, tableVars, clientVars, Owns
<1>1. CASE Tick
  BY <1>1, <1>a DEF Tick
<1>2. ASSUME NEW c \in Clients, Enter(c) PROVE Goal
  BY <1>2, <1>a DEF Enter
<1>3. ASSUME NEW c \in Clients, Delete(c) PROVE Goal
  <2>1. PICK id \in mapped : Forget(id) /\ ref' = [ref EXCEPT ![c] = id]
    BY <1>3 DEF Delete
  <2>2. /\ mapped' = mapped \ {id} /\ life' = life
        /\ \A d \in Clients, i \in Ids : Owns(d, i)' <=> IF d = c THEN i = id ELSE Owns(d, i)
    BY <1>3, <2>1 DEF Delete, Forget
  <2>3. \A i \in Ids : ~Owns(c, i)
    BY <1>3 DEF Delete
  <2> HIDE DEF Owns
  <2> QED BY <2>1, <2>2, <2>3 DEF Goal, OwnedAlone, ReleasedOnce
<1>4. ASSUME NEW c \in Clients, Contend(c) PROVE Goal
  <2>1. CASE SweepOne(c)
    <3>1. PICK id \in mapped : Forget(id) /\ Release(id)
      BY <2>1 DEF SweepOne, Expired
    <3>2. /\ mapped' = mapped \ {id} /\ life' = [life EXCEPT ![id] = "released"]
          /\ \A d \in Clients, i \in Ids : Owns(d, i)' <=> Owns(d, i)
      BY <2>1, <3>1 DEF SweepOne, Forget, Release, OwnedAlone
    <3> HIDE DEF Owns
    <3> QED BY <3>1, <3>2 DEF Goal, OwnedAlone, ReleasedOnce, Lives
  <2>2. CASE ListOne(c)
    BY <2>2, <1>a DEF ListOne
  <2>3. CASE EnterSession(c)
    BY <2>3, <1>a DEF EnterSession
  <2>4. CASE Close(c)
    <3>1. /\ Owns(c, ref[c]) /\ ref[c] \in Ids
      BY <2>4 DEF Close
    <3>0. life[ref[c]] = "open"
      BY <3>1 DEF OwnedAlone
    <3>2. /\ mapped' = mapped /\ life' = [life EXCEPT ![ref[c]] = "released"]
          /\ \A d \in Clients, i \in Ids : Owns(d, i)' <=> d # c /\ Owns(d, i)
      BY <2>4, <3>0 DEF Close, Release
    <3>3. \A i \in Ids : Owns(c, i) => i = ref[c]
      OBVIOUS
    <3> HIDE DEF Owns
    <3> QED BY <3>1, <3>2, <3>3 DEF Goal, OwnedAlone, ReleasedOnce, Lives
  <2> QED BY <1>4, <2>1, <2>2, <2>3, <2>4 DEF Contend
<1>5. ASSUME NEW c \in Clients, Proceed(c) PROVE Goal
  <2>1. CASE SweepDone(c)
    BY <2>1, <1>a DEF SweepDone
  <2>2. CASE CreateRefused(c) \/ CreateFails(c) \/ ListDone(c) \/ LeaveSession(c)
    BY <2>2, <1>a DEF CreateRefused, CreateFails, ListDone, LeaveSession
  <2>3. CASE MakeDrive(c)
    <3>1. PICK id \in Ids : /\ life[id] = "unused"
                            /\ life' = [life EXCEPT ![id] = "open"]
                            /\ ref' = [ref EXCEPT ![c] = id]
      BY <2>3 DEF MakeDrive
    <3>2. /\ mapped' = mapped
          /\ \A d \in Clients, i \in Ids : Owns(d, i)' <=> IF d = c THEN i = id ELSE Owns(d, i)
      BY <2>3, <3>1 DEF MakeDrive
    <3>3. \A i \in Ids : ~Owns(c, i)
      BY <2>3 DEF MakeDrive
    <3> HIDE DEF Owns
    <3> QED BY <3>1, <3>2, <3>3 DEF Goal, OwnedAlone, ReleasedOnce
  <2>4. CASE FinishCPM(c)
    <3>1. /\ Owns(c, ref[c]) /\ ref[c] \in Ids
      BY <2>4 DEF FinishCPM
    <3>2. /\ mapped' = mapped \cup {ref[c]} /\ life' = life
          /\ \A d \in Clients, i \in Ids : Owns(d, i)' <=> d # c /\ Owns(d, i)
      BY <2>4 DEF FinishCPM, Register
    <3>3. \A i \in Ids : Owns(c, i) => i = ref[c]
      OBVIOUS
    <3> HIDE DEF Owns
    <3> QED BY <3>1, <3>2, <3>3 DEF Goal, OwnedAlone, ReleasedOnce
  <2>5. CASE AbandonCPM(c)
    <3>1. /\ Owns(c, ref[c]) /\ ref[c] \in Ids
      BY <2>5 DEF AbandonCPM
    <3>0. life[ref[c]] = "open"
      BY <3>1 DEF OwnedAlone
    <3>2. /\ mapped' = mapped /\ life' = [life EXCEPT ![ref[c]] = "released"]
          /\ \A d \in Clients, i \in Ids : Owns(d, i)' <=> d # c /\ Owns(d, i)
      BY <2>5, <3>0 DEF AbandonCPM, Release
    <3>3. \A i \in Ids : Owns(c, i) => i = ref[c]
      OBVIOUS
    <3> HIDE DEF Owns
    <3> QED BY <3>1, <3>2, <3>3 DEF Goal, OwnedAlone, ReleasedOnce, Lives
  <2>6. CASE CreateBare(c)
    <3>1. PICK id \in Ids : /\ life[id] = "unused"
                            /\ life' = [life EXCEPT ![id] = "open"]
                            /\ Register(c, id)
      BY <2>6 DEF CreateBare
    <3>2. /\ mapped' = mapped \cup {id}
          /\ \A d \in Clients, i \in Ids : Owns(d, i)' <=> Owns(d, i)
      BY <2>6, <3>1 DEF CreateBare, Register
    <3> HIDE DEF Owns
    <3> QED BY <3>1, <3>2 DEF Goal, OwnedAlone, ReleasedOnce
  <2>7. CASE Get(c)
    BY <2>7, <1>a DEF Get
  <2> QED BY <1>5, <2>1, <2>2, <2>3, <2>4, <2>5, <2>6, <2>7 DEF Proceed
<1>6. ASSUME NEW c \in Clients, Arrive(c) PROVE Goal
  BY <1>6, <1>a DEF Arrive
<1> QED BY <1>1, <1>2, <1>3, <1>4, <1>5, <1>6 DEF Next, Serve

(* The invariant is inductive.                                             *)
LEMMA StepInv == Inv /\ [Next]_vars => Inv'
<1> SUFFICES ASSUME Inv, [Next]_vars PROVE Inv'
  OBVIOUS
<1>1. CASE Next
  BY <1>1, TypeStep, LockStep, SweptStep, RoomStep, OwnedStep DEF Inv
<1>2. CASE UNCHANGED vars
  BY <1>2 DEF vars, tableVars, clientVars, Inv, TypeOK, LockHeld, Swept, RoomKept,
     LimitRespected, OpenIsOwned, Owners, ReleasedOnce
<1> QED BY <1>1, <1>2

(* The inductive invariant holds in every state of the manager.            *)
THEOREM TableInvariant == SafetySpec => []Inv
BY InitInv, StepInv, PTL DEF SafetySpec

(* TypeOK: the table, the locks and the clients have their types.          *)
THEOREM TypeCorrect == SafetySpec => []TypeOK
<1>1. Inv => TypeOK
  BY DEF Inv
<1> QED BY <1>1, TableInvariant, PTL

(* LimitRespected: never more than MaxSessions sessions, however creations,*)
(* deletions and sweeps interleave.                                        *)
THEOREM NeverTooMany == SafetySpec => []LimitRespected
<1>1. Inv => LimitRespected
  BY DEF Inv
<1> QED BY <1>1, TableInvariant, PTL

(* OpenIsOwned: what holds resources is in the table, or in the hands of   *)
(* exactly one client that is creating or closing it.                      *)
THEOREM NothingLeaks == SafetySpec => []OpenIsOwned
<1>1. Inv => OpenIsOwned
  BY DEF Inv
<1> QED BY <1>1, TableInvariant, PTL

(* ReleasedOnce: a session is never closed by two.                         *)
THEOREM ClosedOnce == SafetySpec => []ReleasedOnce
<1>1. Inv => ReleasedOnce
  BY DEF Inv
<1> QED BY <1>1, TableInvariant, PTL

(* NoExpiredServed: a lookup gives no session that had expired when the    *)
(* request came, a creation is not refused because of expired ones, and no *)
(* session is swept before it has expired.                                 *)
THEOREM ServedAlive == SafetySpec => NoExpiredServed
<1>1. Inv /\ [Next]_vars => 
        \A c \in Clients :
          /\ pc[c] = "get" /\ pc'[c] = "found" => seen[c] <= expires[ref'[c]]
          /\ CreateRefused(c) =>
               Cardinality({id \in mapped : seen[c] <= expires[id]}) >= MaxSessions
          /\ Holds(c) => \A id \in mapped \ mapped' : seen[c] > expires[id]
  <2> SUFFICES ASSUME Inv, [Next]_vars, NEW c \in Clients
               PROVE  /\ pc[c] = "get" /\ pc'[c] = "found" => seen[c] <= expires[ref'[c]]
                      /\ CreateRefused(c) =>
                           Cardinality({id \in mapped : seen[c] <= expires[id]}) >= MaxSessions
                      /\ Holds(c) => \A id \in mapped \ mapped' : seen[c] > expires[id]
    OBVIOUS
  <2>1. CreateRefused(c) => Cardinality({id \in mapped : seen[c] <= expires[id]}) >= MaxSessions
    <3> SUFFICES ASSUME CreateRefused(c)
                 PROVE  Cardinality({id \in mapped : seen[c] <= expires[id]}) >= MaxSessions
      OBVIOUS
    <3>1. {id \in mapped : seen[c] <= expires[id]} = mapped
      BY DEF CreateRefused, Inv, Swept, Ops
    <3> QED BY <3>1 DEF CreateRefused, Full
  <2>2. ASSUME pc[c] = "get", pc'[c] = "found" PROVE seen[c] <= expires[ref'[c]]
    <3>1. Get(c)
      <4>1. \A d \in Clients : Proceed(d) /\ ~Get(d) => pc'[c] # "found"
        BY <2>2 DEF Inv, TypeOK, Proceed, SweepDone, CreateRefused, CreateFails, MakeDrive,
           FinishCPM, AbandonCPM, CreateBare, ListDone, LeaveSession, Goto, Answer, Register, Ops
      <4>2. \A d \in Clients : Arrive(d) \/ Enter(d) \/ Delete(d) \/ Contend(d) => pc'[c] # "found"
        BY <2>2 DEF Inv, TypeOK, Arrive, Enter, Delete, Contend, SweepOne, ListOne, EnterSession, Close,
           Goto, Answer, clientVars
      <4>3. \A d \in Clients : Get(d) /\ d # c => pc'[c] # "found"
        BY <2>2 DEF Inv, TypeOK, Get, Goto, Answer
      <4>4. ~Tick /\ ~UNCHANGED vars
        BY <2>2 DEF Tick, clientVars, vars
      <4> QED BY <2>2, <4>1, <4>2, <4>3, <4>4 DEF Next, Serve
    <3>2. ref'[c] \in mapped
      BY <2>2, <3>1 DEF Get, Answer, Goto, Inv, TypeOK
    <3> QED BY <2>2, <3>2 DEF Inv, Swept, Ops
  <2>3. ASSUME Holds(c), NEW id \in mapped \ mapped' PROVE seen[c] > expires[id]
    <3>1. \E d \in Clients : SweepOne(d)
      <4>1. \A d \in Clients : ~Proceed(d)
        BY <2>3 DEF Proceed, SweepDone, CreateRefused, CreateFails, MakeDrive, FinishCPM,
           AbandonCPM, CreateBare, ListDone, Get, LeaveSession, Register, tableVars
      <4>2. \A d \in Clients : ~Arrive(d) /\ ~Enter(d) /\ ~ListOne(d) /\ ~EnterSession(d) /\ ~Close(d)
        BY <2>3 DEF Arrive, Enter, ListOne, EnterSession, Close, tableVars
      <4>3. \A d \in Clients : ~Delete(d)
        BY <2>3, ManagerAssumption DEF Delete, Holds
      <4>4. ~Tick /\ ~UNCHANGED vars
        BY <2>3 DEF Tick, tableVars, vars
      <4> QED BY <4>1, <4>2, <4>3, <4>4 DEF Next, Serve, Contend
    <3>2. PICK d \in Clients : SweepOne(d)
      BY <3>1
    <3>3. d = c
      BY <2>3, <3>2 DEF SweepOne, Holds
    <3> QED BY <2>3, <3>2, <3>3 DEF SweepOne, Forget, Expired
  <2> QED BY <2>1, <2>2, <2>3
<1> QED BY <1>1, TableInvariant, PTL DEF SafetySpec, NoExpiredServed
=============================================================================
