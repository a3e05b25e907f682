-------------------------- MODULE UserStoreProofs --------------------------
(* Proofs about UserStore.                                                 *)
EXTENDS UserStore, TLAPS

Creates == [op : {"create"}, user : User, password : Password, tokens : Brought]
Adds == [op : {"add"}, user : User, token : Token, minutes : Minutes]
Cuts == [op : {"cut"}, user : User, token : Token]
TokenCalls == Adds \cup Cuts
Removes == [op : {"remove"}, user : User]

\* A thread is at a place of the request it serves.
Matched ==
    \A t \in Thread :
      /\ pc[t] = "create.check" => call[t] \in Creates
      /\ pc[t] \in {"token.find", "token.load", "update.check", "update.delete"}
           => call[t] \in TokenCalls
      /\ pc[t] \in {"save.merge", "save.flush"} => call[t] \in Creates \cup TokenCalls
      /\ pc[t] \in {"remove.find", "remove.delete"} => call[t] \in Removes

TypeInv == TypeOK /\ Matched

LEMMA InitType == Init => TypeInv
  <1> SUFFICES ASSUME Init PROVE TypeInv
    OBVIOUS
  <1> USE DEF Init
  <1>1. TypeOK
    BY DEF TypeOK, Table, Place, Resting, Holding
  <1>2. Matched
    BY DEF Matched
  <1> QED
    BY <1>1, <1>2 DEF TypeInv

\* A user that is served is a user, and what it stores is a row.
LEMMA CallHasUser ==
  ASSUME TypeInv, NEW t \in Thread, pc[t] \notin Resting
  PROVE  call[t].user \in User /\ call[t] \in Request
  BY DEF TypeInv, TypeOK, Matched, Request, Creates, TokenCalls, Adds, Cuts, Removes, Place

LEMMA ChangeType ==
  ASSUME NEW r \in TokenCalls, NEW tokens \in SUBSET Token
  PROVE  Change(r, tokens) \in SUBSET Token
  BY DEF Change, TokenCalls, Adds, Cuts

LEMMA WrittenType ==
  ASSUME TypeInv, NEW t \in Thread, pc[t] = "save.flush"
  PROVE  Written(t) \in Row \cup {Absent}
  <1> DEFINE u == call[t].user
  <1>1. u \in User /\ rows[u] \in Row \cup {Absent}
    BY CallHasUser DEF TypeInv, TypeOK, Table, Resting
  <1>2. copy[t] \in Row /\ base[t] \in Row \cup {Absent}
    BY DEF TypeInv, TypeOK, Holding
  <1>3. CASE base[t] = Absent
    BY <1>2, <1>3 DEF Written
  <1>4. CASE base[t] # Absent /\ ~Stored(u)
    BY <1>4 DEF Written
  <1>5. CASE base[t] # Absent /\ Stored(u)
    <2>1. rows[u] \in Row
      BY <1>1, <1>5 DEF Stored
    <2>2. Written(t) = [password |-> IF NewPassword(t) THEN copy[t].password ELSE rows[u].password,
                        tokens |-> (rows[u].tokens \ (base[t].tokens \ copy[t].tokens))
                                   \cup NewTokens(t)]
      BY <1>5 DEF Written
    <2> QED
      BY <2>1, <2>2, <1>2 DEF Row, NewTokens
  <1> QED
    BY <1>3, <1>4, <1>5

\* A thread that ends keeps the types.
LEMMA EndKeepsTypes ==
  ASSUME TypeInv, NEW t \in Thread, NEW outcome \in Resting, End(t, outcome),
         rows' \in Table, intact' \in [User -> BOOLEAN], removed' \in BOOLEAN
  PROVE  TypeInv'
  <1> USE DEF End
  <1>1. TypeOK'
    BY DEF TypeInv, TypeOK, Place, Resting, Holding
  <1>2. Matched'
    BY DEF TypeInv, TypeOK, Matched, Resting
  <1> QED
    BY <1>1, <1>2 DEF TypeInv

LEMMA TypeStep == TypeInv /\ [Next]_vars => TypeInv'
  <1> SUFFICES ASSUME TypeInv, [Next]_vars PROVE TypeInv'
    OBVIOUS
  <1> USE DEF TypeInv
  <1>1. CASE UNCHANGED vars
    BY <1>1 DEF vars, TypeOK, Matched
  <1>2. CASE Restart
    BY <1>2 DEF Restart, TypeOK, Matched, Place, Resting, Holding, Stored
  <1>3. CASE Boot
    BY <1>3, UserAssumption DEF Boot, TypeOK, Matched, Table, Row
  <1>4. ASSUME NEW t \in Thread, Serve(t) PROVE TypeInv'
    <2>1. CASE Call(t)
      <3>1. PICK r \in Request : /\ pc' = [pc EXCEPT ![t] = FirstPlace[r.op]]
                                 /\ call' = [call EXCEPT ![t] = r]
        BY <2>1 DEF Call
      <3>2. \/ r \in Creates /\ FirstPlace[r.op] = "create.check"
            \/ r \in TokenCalls /\ FirstPlace[r.op] = "token.find"
            \/ r \in Removes /\ FirstPlace[r.op] = "remove.find"
        BY DEF Request, Creates, TokenCalls, Adds, Cuts, Removes, FirstPlace
      <3>3. TypeOK'
        <4>1. pc \in [Thread -> Place] /\ call \in [Thread -> Request \cup {Nothing}]
              /\ (\A s \in Thread : pc[s] \in Resting <=> call[s] = Nothing) /\ rows \in Table
          BY DEF TypeOK
        <4>2. pc'[t] \in Place \ (Resting \cup Holding) /\ call'[t] # Nothing
          BY <3>1, <3>2, <4>1, UserAssumption DEF Place, Resting, Holding
        <4>3. \A s \in Thread \ {t} : pc'[s] = pc[s] /\ call'[s] = call[s]
          BY <3>1, <4>1
        <4>4. pc' \in [Thread -> Place] /\ call' \in [Thread -> Request \cup {Nothing}]
          BY <3>1, <3>2, <4>1 DEF Place
        <4>5. alone' \in Table \cup {Nothing}
          BY <2>1, <4>1 DEF Call
        <4> QED
          <5>1. \A s \in Thread : pc'[s] \in Resting <=> call'[s] = Nothing
            BY <4>1, <4>2, <4>3
          <5>2. \A s \in Thread : pc'[s] \in Holding => copy'[s] # Absent
            BY <2>1, <4>2, <4>3 DEF Call, TypeOK
          <5> QED
            BY <2>1, <4>4, <4>5, <5>1, <5>2 DEF Call, TypeOK, History
      <3>4. Matched'
        BY <2>1, <3>1, <3>2 DEF Matched, TypeOK
      <3> QED
        BY <3>3, <3>4
    <2>2. ASSUME pc[t] \notin Resting PROVE call[t].user \in User /\ call[t] \in Request
      BY <2>2, CallHasUser
    <2> USE DEF At, Go, End, History, TypeOK, Place, Resting, Holding
    <2>3. CASE CheckNew(t)
      <3>1. call[t] \in Creates
        BY <2>3 DEF CheckNew, Matched
      <3>2. NewRow(call[t]) \in Row
        BY <3>1, UserAssumption DEF Creates, NewRow, Row
      <3>3. CASE Stored(call[t].user)
        BY <2>3, <3>3, EndKeepsTypes DEF CheckNew
      <3>4. CASE ~Stored(call[t].user)
        <4>1. copy' = [copy EXCEPT ![t] = NewRow(call[t])]
              /\ pc' = [pc EXCEPT ![t] = "save.merge"]
              /\ UNCHANGED <<rows, call, base, up, intact, removed, alone>>
          BY <2>3, <3>4 DEF CheckNew
        <4>2. NewRow(call[t]) # Absent /\ call[t] # Nothing
          BY <3>1, <3>2, <2>3, UserAssumption DEF CheckNew
        <4>3. \A s \in Thread : pc'[s] \in Resting <=> call'[s] = Nothing
          BY <4>1, <4>2
        <4>4. TypeOK'
          BY <3>2, <4>1, <4>2, <4>3
        <4>5. Matched'
          BY <3>1, <4>1 DEF Matched
        <4> QED
          BY <4>4, <4>5
      <3> QED
        BY <3>3, <3>4
    <2>4. CASE Find(t)
      <3> DEFINE r == call[t]
      <3>1. ASSUME Stored(r.user)
            PROVE  [rows[r.user] EXCEPT !.tokens = {}] \in Row
        <4>1. rows[r.user] \in Row
          BY <2>2, <2>4, <3>1 DEF Find, Stored, Table
        <4> QED
          BY <4>1 DEF Row
      <3>2. ASSUME NEW outcome \in Resting, End(t, outcome), UNCHANGED <<rows, intact, removed>>
            PROVE  TypeInv'
        BY <3>2, EndKeepsTypes
      <3>3. CASE pc'[t] # "token.load"
        BY <2>4, <3>2, <3>3 DEF Find
      <3>4. CASE pc'[t] = "token.load"
        <4>1. Stored(r.user) /\ copy' = [copy EXCEPT ![t] = [rows[r.user] EXCEPT !.tokens = {}]]
              /\ pc' = [pc EXCEPT ![t] = "token.load"]
              /\ UNCHANGED <<rows, call, base, up, intact, removed, alone>>
          BY <2>4, <3>4 DEF Find
        <4>2. [rows[r.user] EXCEPT !.tokens = {}] # Absent
          BY <3>1, <4>1, UserAssumption
        <4>3. \A s \in Thread : pc'[s] \in Resting <=> call'[s] = Nothing
          BY <2>4, <4>1 DEF Find
        <4>4. TypeOK'
          BY <3>1, <4>1, <4>2, <4>3
        <4>5. Matched'
          BY <2>4, <4>1 DEF Find, Matched
        <4> QED
          BY <4>4, <4>5
      <3> QED
        BY <3>3, <3>4
    <2>5. CASE LoadTokens(t)
      <3>1. call[t] \in TokenCalls /\ copy[t] \in Row
        BY <2>5 DEF LoadTokens, Matched
      <3>2. StoredTokens(call[t].user) \in SUBSET Token
        BY <2>2, <2>5 DEF LoadTokens, StoredTokens, Stored, Table, Row
      <3>3. Change(call[t], StoredTokens(call[t].user)) \in SUBSET Token
        BY <3>1, <3>2, ChangeType
      <3>4. /\ [copy[t] EXCEPT !.tokens = StoredTokens(call[t].user)] \in Row
            /\ [copy[t] EXCEPT !.tokens = Change(call[t], StoredTokens(call[t].user))] \in Row
        BY <3>1, <3>2, <3>3 DEF Row
      <3>5. TypeOK'
        BY <2>5, <3>4, UserAssumption DEF LoadTokens
      <3>6. Matched'
        BY <2>5 DEF LoadTokens, Matched
      <3> QED
        BY <3>5, <3>6
    <2>6. CASE CheckUpdate(t)
      <3>1. TypeOK'
        BY <2>6 DEF CheckUpdate
      <3>2. Matched'
        BY <2>6 DEF CheckUpdate, Matched
      <3> QED
        BY <3>1, <3>2
    <2>7. CASE DeleteRow(t)
      <3>1. rows' \in Table
        BY <2>2, <2>7 DEF DeleteRow, Table
      <3>2. TypeOK'
        BY <2>7, <3>1 DEF DeleteRow
      <3>3. Matched'
        BY <2>7 DEF DeleteRow, Matched
      <3> QED
        BY <3>2, <3>3
    <2>8. CASE Merge(t)
      <3>1. rows[call[t].user] \in Row \cup {Absent}
        BY <2>2, <2>8 DEF Merge, Table
      <3>2. base' = [base EXCEPT ![t] = rows[call[t].user]]
            /\ pc' = [pc EXCEPT ![t] = "save.flush"] /\ pc[t] = "save.merge"
            /\ UNCHANGED <<rows, call, copy, up, intact, removed, alone>>
        BY <2>8 DEF Merge
      <3>3. TypeOK'
        BY <3>1, <3>2
      <3>4. Matched'
        BY <2>8 DEF Merge, Matched
      <3> QED
        BY <3>3, <3>4
    <2>9. CASE Flush(t)
      <3>1. rows' \in Table /\ intact' \in [User -> BOOLEAN]
        <4>1. Written(t) \in Row \cup {Absent} /\ call[t].user \in User
          BY <2>2, <2>9, WrittenType DEF Flush
        <4>2. \/ UNCHANGED <<rows, intact>>
              \/ /\ rows' = [rows EXCEPT ![call[t].user] = Written(t)]
                 /\ intact' = [intact EXCEPT ![call[t].user] = @ \/ Written(t) # Absent]
          BY <2>9 DEF Flush
        <4>3. rows' \in Table
          BY <4>1, <4>2 DEF Table
        <4>4. intact' \in [User -> BOOLEAN]
          BY <4>1, <4>2
        <4> QED
          BY <4>3, <4>4
      <3> QED
        BY <2>9, <3>1, EndKeepsTypes DEF Flush
    <2>10. CASE FindRemoved(t)
      <3>1. TypeOK'
        BY <2>10 DEF FindRemoved
      <3>2. Matched'
        BY <2>10 DEF FindRemoved, Matched
      <3> QED
        BY <3>1, <3>2
    <2>11. CASE Remove(t)
      <3>1. rows' \in Table /\ intact' \in [User -> BOOLEAN]
        BY <2>2, <2>11 DEF Remove, Table
      <3> QED
        BY <2>11, <3>1, EndKeepsTypes DEF Remove
    <2> QED
      BY <1>4, <2>1, <2>3, <2>4, <2>5, <2>6, <2>7, <2>8, <2>9, <2>10, <2>11 DEF Serve
  <1> QED
    BY <1>1, <1>2, <1>3, <1>4 DEF Next

\* The type invariant: whatever the requests of any number of threads do, a thread that saves,
\* deletes or changes a user works on an object of it (updateUser, createUser).
THEOREM UserTypeCorrect == Spec => []TypeOK
  <1>1. TypeInv => TypeOK
    BY DEF TypeInv
  <1> QED
    BY InitType, TypeStep, <1>1, PTL DEF Spec

-----------------------------------------------------------------------------
\* A step that leaves the rows, the history and the savers of every user keeps KeepsUser.
LEMMA SaverStays ==
  ASSUME TypeInv, NEW t \in Thread, KeepsUser, UNCHANGED intact,
         pc[t] # "save.merge", pc[t] # "save.flush",
         pc' = [pc EXCEPT ![t] = pc'[t]], call' = [call EXCEPT ![t] = call'[t]],
         base' = [base EXCEPT ![t] = base'[t]],
         \A u \in User : Stored(u) => Stored(u)' \/ Saves(t, u)'
  PROVE  KeepsUser'
  <1> SUFFICES ASSUME NEW u \in User, intact'[u] PROVE (Stored(u) \/ \E s \in Thread : Saves(s, u))'
    BY DEF KeepsUser
  <1>1. CASE Stored(u)
    BY <1>1
  <1>2. CASE ~Stored(u)
    <2>1. PICK s \in Thread : Saves(s, u)
      BY <1>2 DEF KeepsUser
    <2>2. s # t
      BY <2>1 DEF Saves
    <2>3. pc'[s] = pc[s] /\ call'[s] = call[s] /\ base'[s] = base[s]
      BY <2>2 DEF TypeInv, TypeOK
    <2> QED
      BY <2>1, <2>3 DEF Saves
  <1> QED
    BY <1>1, <1>2

LEMMA KeepsUserStep == TypeInv /\ KeepsUser /\ [Next]_vars => KeepsUser'
  <1> SUFFICES ASSUME TypeInv, KeepsUser, [Next]_vars PROVE KeepsUser'
    OBVIOUS
  <1>1. CASE UNCHANGED vars
    BY <1>1 DEF vars, KeepsUser, Stored, Saves
  <1>2. CASE Restart
    BY <1>2 DEF Restart, KeepsUser, Stored, TypeInv, TypeOK
  <1>3. CASE Boot
    BY <1>3 DEF Boot, KeepsUser, Stored, TypeInv, TypeOK
  <1>4. ASSUME NEW t \in Thread, Serve(t) PROVE KeepsUser'
    <2> USE DEF At, Go, End, History
    <2>a. pc \in [Thread -> Place] /\ call \in [Thread -> Request \cup {Nothing}]
          /\ base \in [Thread -> Row \cup {Absent}] /\ rows \in Table /\ intact \in [User -> BOOLEAN]
      BY DEF TypeInv, TypeOK
    <2>1. CASE Call(t)
      BY <2>a, <2>1, SaverStays DEF Call, Stored, Resting
    <2>2. CASE CheckNew(t)
      BY <2>a, <2>2, SaverStays DEF CheckNew, Stored
    <2>3. CASE Find(t)
      BY <2>a, <2>3, SaverStays DEF Find, Stored
    <2>4. CASE LoadTokens(t)
      BY <2>a, <2>4, SaverStays DEF LoadTokens, Stored
    <2>5. CASE CheckUpdate(t)
      BY <2>a, <2>5, SaverStays DEF CheckUpdate, Stored
    <2>6. CASE DeleteRow(t)
      <3>1. call[t].user \in User
        BY <2>6, CallHasUser DEF DeleteRow, Resting
      <3>2. \A u \in User : Stored(u) => Stored(u)' \/ Saves(t, u)'
        BY <2>a, <2>6, <3>1 DEF DeleteRow, Stored, Saves, Table
      <3> QED
        BY <2>a, <2>6, <3>2, SaverStays DEF DeleteRow
    <2>7. CASE Merge(t)
      <3> SUFFICES ASSUME NEW u \in User, intact'[u]
                   PROVE  (Stored(u) \/ \E s \in Thread : Saves(s, u))'
        BY DEF KeepsUser
      <3>1. CASE Stored(u)
        BY <2>7, <3>1 DEF Merge, Stored
      <3>2. CASE ~Stored(u)
        <4>1. PICK s \in Thread : Saves(s, u)
          BY <2>7, <3>2 DEF Merge, KeepsUser
        <4>2. CASE s = t
          BY <2>a, <2>7, <3>2, <4>1, <4>2 DEF Merge, Saves, Stored
        <4>3. CASE s # t
          BY <2>a, <2>7, <4>1, <4>3 DEF Merge, Saves
        <4> QED
          BY <4>2, <4>3
      <3> QED
        BY <3>1, <3>2
    <2>8. CASE Flush(t)
      <3> DEFINE v == call[t].user
      <3>1. v \in User
        BY <2>8, CallHasUser DEF Flush, Resting
      <3>2. \A s \in Thread \ {t} : \A u \in User : Saves(s, u) => Saves(s, u)'
        BY <2>a, <2>8 DEF Flush, Saves
      <3>3. CASE Conflict(t)
        <4>1. \A u \in User : Saves(t, u) => Stored(u)
          BY <2>8, <3>3 DEF Flush, Saves, Conflict
        <4>2. UNCHANGED <<rows, intact>>
          BY <2>8, <3>3 DEF Flush
        <4> QED
          BY <3>2, <4>1, <4>2 DEF KeepsUser, Stored
      <3>4. CASE ~Conflict(t)
        <4>1. rows' = [rows EXCEPT ![v] = Written(t)]
              /\ intact' = [intact EXCEPT ![v] = @ \/ Written(t) # Absent]
          BY <2>8, <3>4 DEF Flush
        <4>2. copy[t] # Absent
          BY <2>8 DEF Flush, TypeInv, TypeOK, Holding
        <4>3. Stored(v) \/ Saves(t, v) => Written(t) # Absent
          <5>1. CASE base[t] = Absent
            BY <4>2, <5>1 DEF Written
          <5>2. CASE base[t] # Absent /\ Stored(v)
            <6>1. Written(t) = [password |-> IF NewPassword(t) THEN copy[t].password
                                             ELSE rows[v].password,
                                tokens |-> (rows[v].tokens \ (base[t].tokens \ copy[t].tokens))
                                           \cup NewTokens(t)]
              BY <5>2 DEF Written
            <6>2. Written(t) \in Row
              <7>1. copy[t] \in Row /\ base[t] \in Row /\ rows[v] \in Row
                BY <2>8, <3>1, <5>2 DEF Flush, TypeInv, TypeOK, Holding, Table, Stored
              <7> QED
                BY <6>1, <7>1 DEF Row, NewTokens
            <6> QED
              BY <6>2, UserAssumption
          <5>3. CASE base[t] # Absent /\ ~Stored(v)
            BY <2>8, <5>3 DEF Saves, Flush
          <5> QED
            BY <5>1, <5>2, <5>3
        <4>4. \A u \in User : u # v => ~Saves(t, u)
          BY DEF Saves
        <4> SUFFICES ASSUME NEW u \in User, intact'[u]
                     PROVE  (Stored(u) \/ \E s \in Thread : Saves(s, u))'
          BY DEF KeepsUser
        <4>5. CASE u = v
          <5>1. CASE Written(t) # Absent
            BY <2>a, <3>1, <4>1, <4>5, <5>1 DEF Stored, Table
          <5>2. CASE Written(t) = Absent
            <6>1. intact[v] /\ ~Stored(v) /\ ~Saves(t, v)
              BY <2>a, <3>1, <4>1, <4>3, <4>5, <5>2
            <6>2. PICK s \in Thread : Saves(s, v)
              BY <3>1, <6>1 DEF KeepsUser
            <6> QED
              BY <3>1, <3>2, <4>5, <6>1, <6>2
          <5> QED
            BY <5>1, <5>2
        <4>6. CASE u # v
          <5>1. intact[u] /\ rows'[u] = rows[u]
            BY <2>a, <4>1, <4>6 DEF Table
          <5> QED
            BY <3>2, <4>4, <4>6, <5>1 DEF KeepsUser, Stored
        <4> QED
          BY <4>5, <4>6
      <3> QED
        BY <3>3, <3>4
    <2>9. CASE FindRemoved(t)
      BY <2>a, <2>9, SaverStays DEF FindRemoved, Stored
    <2>10. CASE Remove(t)
      <3> DEFINE v == call[t].user
      <3>1. v \in User
        BY <2>10, CallHasUser DEF Remove, Resting
      <3>2. CASE ~Stored(v)
        BY <2>a, <2>10, <3>2, SaverStays DEF Remove, Stored
      <3>3. CASE Stored(v)
        <4>1. rows' = [rows EXCEPT ![v] = Absent] /\ intact' = [intact EXCEPT ![v] = FALSE]
          BY <2>10, <3>3 DEF Remove
        <4>2. \A s \in Thread : \A u \in User : Saves(s, u) => Saves(s, u)'
          BY <2>a, <2>10, <3>3 DEF Remove, Saves
        <4> QED
          BY <2>a, <3>1, <4>1, <4>2 DEF KeepsUser, Stored, Table
      <3> QED
        BY <3>2, <3>3
    <2> QED
      BY <1>4, <2>1, <2>2, <2>3, <2>4, <2>5, <2>6, <2>7, <2>8, <2>9, <2>10 DEF Serve
  <1> QED
    BY <1>1, <1>2, <1>3, <1>4 DEF Next

\* However the requests of several administrators interleave and fail, a user that was stored
\* and that nobody removed is in the table or about to be (updateUser).
THEOREM UserKept == Spec => []KeepsUser
  <1>1. Init => KeepsUser
    BY DEF Init, KeepsUser
  <1> QED
    BY InitType, TypeStep, <1>1, KeepsUserStep, PTL DEF Spec

-----------------------------------------------------------------------------
SomeIntact == up => removed \/ \E u \in User : intact[u]

LEMMA SomeIntactStep == TypeInv /\ SomeIntact /\ [Next]_vars => SomeIntact'
  <1> SUFFICES ASSUME TypeInv, SomeIntact, [Next]_vars PROVE SomeIntact'
    OBVIOUS
  <1>1. CASE UNCHANGED <<up, removed, intact>>
    BY <1>1 DEF SomeIntact
  <1>2. CASE Restart
    BY <1>2 DEF Restart, SomeIntact
  <1>3. CASE Boot
    <2>1. rows \in [User -> Row \cup {Absent}] /\ [password |-> Default, tokens |-> {}] # Absent
      BY UserAssumption DEF TypeInv, TypeOK, Table, Row
    <2> QED
      BY <1>3, <2>1, UserAssumption DEF Boot, SomeIntact, Stored
  <1>4. ASSUME NEW t \in Thread, Flush(t) PROVE SomeIntact'
    BY <1>4 DEF Flush, At, End, SomeIntact, TypeInv, TypeOK
  <1>5. ASSUME NEW t \in Thread, Remove(t) PROVE SomeIntact'
    BY <1>5 DEF Remove, At, End, History, SomeIntact
  <1> QED
    BY <1>1, <1>2, <1>3, <1>4, <1>5 DEF Next, Serve, vars, History, Call, CheckNew, Find,
       LoadTokens, CheckUpdate, DeleteRow, Merge, FindRemoved, Go, End

\* A running CIM has a user, stored or about to be, unless one was removed since it started,
\* also after a stop between the delete and the save of its only user (createDefaultUser).
THEOREM UserNeverLockedOut == Spec => []NeverLockedOut
  <1>1. Init => KeepsUser /\ SomeIntact
    BY DEF Init, KeepsUser, SomeIntact
  <1>2. KeepsUser /\ SomeIntact => NeverLockedOut
    BY DEF KeepsUser, SomeIntact, NeverLockedOut
  <1> QED
    BY InitType, TypeStep, KeepsUserStep, SomeIntactStep, <1>1, <1>2, PTL DEF Spec

-----------------------------------------------------------------------------
\* A request that createAPIToken neither refuses nor passes over.
Served(t) == ~Refused(call[t], alone) /\ ~Negative(call[t])

LEMMA ServedStays ==
  ASSUME NEW t \in Thread, Served(t), UNCHANGED <<call, alone>>
  PROVE  Served(t)'
  BY DEF Served, Refused, NoNumber, Negative, Over

\* Only requests to add a token look at the minutes.
LEMMA OthersServed ==
  ASSUME NEW t \in Thread, call[t] \in Creates \cup Cuts \cup Removes
  PROVE  Served(t)
  BY DEF Served, Refused, NoNumber, Negative, Over, Creates, Cuts, Removes

\* How far a request is that no other overlaps: what it did to the table it found, and what its
\* session holds.
Course(t) ==
    LET u == call[t].user IN
    /\ \A s \in Thread : pc[s] \notin Resting => s = t
    /\ pc[t] \in {"create.check", "token.find", "remove.find"} => rows = alone
    /\ pc[t] \in {"token.load", "update.check", "update.delete", "save.merge", "save.flush"}
         => Served(t)
    /\ pc[t] = "token.load" => /\ rows = alone /\ Stored(u)
                               /\ copy[t] = [alone[u] EXCEPT !.tokens = {}]
    /\ pc[t] \in {"update.check", "update.delete"}
         => /\ rows = alone /\ Stored(u)
            /\ copy[t] = [alone[u] EXCEPT !.tokens = Change(call[t], @)]
    /\ pc[t] = "remove.delete" => rows = alone /\ Stored(u)
    /\ pc[t] \in {"save.merge", "save.flush"}
         => /\ rows = [alone EXCEPT ![u] = Absent]
            /\ Effect(call[t], alone) = [alone EXCEPT ![u] = copy[t]]
    /\ pc[t] = "save.flush" => base[t] = Absent

LoneInv ==
    /\ ~up => alone = Nothing
    /\ \A t \in Thread : alone # Nothing /\ pc[t] \notin Resting => Course(t)

\* What a lone request does is what it is to do.
Exact(t) ==
    IF Refused(call[t], alone) THEN pc'[t] = "failed" /\ rows' = alone
    ELSE pc'[t] = "free" /\ rows' = Effect(call[t], alone)

\* A step of a lone request keeps its course or ends it exactly.
LEMMA CourseStep ==
  ASSUME TypeInv, NEW t \in Thread, Serve(t), alone # Nothing, pc[t] \notin Resting, Course(t)
  PROVE  IF pc'[t] \in Resting THEN Exact(t) ELSE alone' = alone /\ Course(t)'
  <1> DEFINE u == call[t].user
  <1> USE DEF At, Go, End, History
  <1>1. /\ pc \in [Thread -> Place] /\ call \in [Thread -> Request \cup {Nothing}]
        /\ base \in [Thread -> Row \cup {Absent}] /\ copy \in [Thread -> Row \cup {Absent}]
        /\ rows \in Table /\ alone \in Table /\ u \in User
    BY CallHasUser DEF TypeInv, TypeOK
  <1>2. ~Call(t)
    BY DEF Call
  <1>3. CASE CheckNew(t)
    <2>1. rows = alone /\ call[t] \in Creates
      BY <1>3 DEF CheckNew, Course, TypeInv, Matched
    <2>2. Effect(call[t], alone)
            = [alone EXCEPT ![u] = IF alone[u] = Absent
                                   THEN NewRow(call[t])
                                   ELSE alone[u]]
      BY <2>1 DEF Effect, Outcome, Creates
    <2>a. Served(t)
      BY <2>1, OthersServed
    <2>3. CASE Stored(u)
      BY <1>1, <1>3, <2>1, <2>2, <2>3, <2>a DEF CheckNew, Exact, Served, Stored, Resting, Table
    <2>4. CASE ~Stored(u)
      <3>1. /\ copy' = [copy EXCEPT ![t] = NewRow(call[t])]
            /\ pc' = [pc EXCEPT ![t] = "save.merge"]
            /\ UNCHANGED <<rows, call, base, alone>>
        BY <1>3, <2>4 DEF CheckNew
      <3>2. rows = [alone EXCEPT ![u] = Absent]
        BY <1>1, <2>1, <2>4 DEF Stored, Table
      <3>3. Effect(call[t], alone) = [alone EXCEPT ![u] = copy'[t]]
        BY <1>1, <2>1, <2>2, <2>4, <3>1 DEF Stored
      <3>4. (Effect(call[t], alone) = [alone EXCEPT ![u] = copy[t]])'
        BY <1>1, <3>1, <3>3 DEF Effect, Outcome, Change, NewRow, Negative
      <3>5. Served(t)'
        BY <2>a, <3>1, ServedStays
      <3> QED
        BY <1>1, <3>1, <3>2, <3>4, <3>5 DEF Course, Resting
    <2> QED
      BY <2>3, <2>4
  <1>4. CASE Find(t)
    <2>1. rows = alone /\ call[t] \in TokenCalls
      BY <1>4 DEF Find, Course, TypeInv, Matched
    <2>2. CASE pc'[t] = "failed"
      <3>1. NoNumber(call[t]) \/ (Over(call[t]) /\ Stored(u))
        BY <1>1, <1>4, <2>2 DEF Find
      <3> QED
        BY <1>4, <2>1, <2>2, <3>1 DEF Find, Exact, Refused, Stored, Resting
    <2>3. CASE pc'[t] = "free"
      <3>1. ~NoNumber(call[t]) /\ (~Stored(u) \/ Negative(call[t])) /\ rows' = rows
        BY <1>1, <1>4, <2>3 DEF Find
      <3>2. ~Refused(call[t], alone)
        BY <2>1, <3>1 DEF Refused, Over, Negative, Stored
      <3>3. Outcome(call[t], alone[u]) = alone[u]
        BY <2>1, <3>1 DEF Outcome, Stored, TokenCalls, Adds, Cuts
      <3>4. Effect(call[t], alone) = alone
        BY <1>1, <3>3 DEF Effect, Table
      <3> QED
        BY <2>1, <2>3, <3>1, <3>2, <3>4 DEF Exact, Resting
    <2>4. CASE pc'[t] = "token.load"
      <3>1. /\ ~NoNumber(call[t]) /\ ~Negative(call[t]) /\ ~Over(call[t]) /\ Stored(u)
            /\ copy' = [copy EXCEPT ![t] = [rows[u] EXCEPT !.tokens = {}]]
            /\ pc' = [pc EXCEPT ![t] = "token.load"]
            /\ UNCHANGED <<rows, call, alone, base>>
        BY <1>1, <1>4, <2>4 DEF Find
      <3>2. Served(t)
        BY <3>1 DEF Served, Refused
      <3>3. Served(t)'
        BY <3>1, <3>2, ServedStays
      <3> QED
        BY <1>1, <2>1, <3>1, <3>3 DEF Course, Stored, Resting
    <2> QED
      BY <1>1, <1>4, <2>2, <2>3, <2>4 DEF Find
  <1>5. CASE LoadTokens(t)
    <2>1. /\ rows = alone /\ Stored(u) /\ copy[t] = [alone[u] EXCEPT !.tokens = {}]
      BY <1>5 DEF LoadTokens, Course
    <2>2. StoredTokens(u) = alone[u].tokens /\ alone[u] \in Row
      BY <1>1, <2>1 DEF StoredTokens, Stored, Table
    <2>3. [copy[t] EXCEPT !.tokens = Change(call[t], alone[u].tokens)]
            = [alone[u] EXCEPT !.tokens = Change(call[t], @)]
      BY <2>1, <2>2 DEF Row
    <2>4. /\ copy' = [copy EXCEPT ![t] = [copy[t] EXCEPT !.tokens = Change(call[t], alone[u].tokens)]]
          /\ pc' = [pc EXCEPT ![t] = "update.check"]
          /\ UNCHANGED <<rows, call, alone>>
      BY <1>5, <2>2 DEF LoadTokens
    <2>5. copy'[t] = [alone[u] EXCEPT !.tokens = Change(call[t], @)]
      BY <1>1, <2>3, <2>4
    <2>6. Served(t)'
      BY <1>5, <2>4, ServedStays DEF LoadTokens, Course
    <2> QED
      BY <1>1, <2>1, <2>4, <2>5, <2>6 DEF Course, Stored, Resting, Change
  <1>6. CASE CheckUpdate(t)
    <2>1. /\ pc[t] = "update.check" /\ pc' = [pc EXCEPT ![t] = "update.delete"]
          /\ UNCHANGED <<rows, call, copy, base, alone>>
      BY <1>6 DEF CheckUpdate, Course
    <2>2. Served(t)'
      BY <2>1, ServedStays DEF Course
    <2> QED
      BY <1>1, <2>1, <2>2 DEF Course, Stored, Resting, Change
  <1>7. CASE DeleteRow(t)
    <2>1. /\ rows = alone /\ Stored(u) /\ copy[t] = [alone[u] EXCEPT !.tokens = Change(call[t], @)]
          /\ call[t] \in TokenCalls /\ Served(t)
      BY <1>7 DEF DeleteRow, Course, TypeInv, Matched
    <2>2. /\ rows' = [rows EXCEPT ![u] = Absent] /\ pc' = [pc EXCEPT ![t] = "save.merge"]
          /\ UNCHANGED <<call, copy, base, alone>>
      BY <1>7, <2>1 DEF DeleteRow
    <2>3. Effect(call[t], alone) = [alone EXCEPT ![u] = copy[t]]
      <3>1. alone[u] # Absent /\ call[t].op # "create" /\ call[t].op # "remove"
        BY <2>1 DEF Stored, TokenCalls, Adds, Cuts
      <3>2. Outcome(call[t], alone[u]) = copy[t]
        BY <2>1, <3>1 DEF Outcome, Served
      <3> QED
        BY <3>2 DEF Effect
    <2>4. (Effect(call[t], alone) = [alone EXCEPT ![u] = copy[t]])'
      BY <2>2, <2>3 DEF Effect, Outcome, Change, NewRow, Negative
    <2>5. Served(t)'
      BY <2>1, <2>2, ServedStays
    <2> QED
      BY <1>1, <2>1, <2>2, <2>4, <2>5 DEF Course, Resting
  <1>8. CASE Merge(t)
    <2>1. /\ rows = [alone EXCEPT ![u] = Absent]
          /\ Effect(call[t], alone) = [alone EXCEPT ![u] = copy[t]]
      BY <1>8 DEF Merge, Course
    <2>2. /\ base' = [base EXCEPT ![t] = Absent] /\ pc' = [pc EXCEPT ![t] = "save.flush"]
          /\ UNCHANGED <<rows, call, copy, alone>>
      BY <1>1, <1>8, <2>1 DEF Merge, Table
    <2>3. (Effect(call[t], alone) = [alone EXCEPT ![u] = copy[t]])'
      BY <2>1, <2>2 DEF Effect, Outcome, Change, NewRow, Negative
    <2>4. Served(t)'
      BY <1>8, <2>2, ServedStays DEF Merge, Course
    <2> QED
      BY <1>1, <2>1, <2>2, <2>3, <2>4 DEF Course, Resting
  <1>9. CASE Flush(t)
    <2>1. /\ rows = [alone EXCEPT ![u] = Absent] /\ base[t] = Absent /\ Served(t)
          /\ Effect(call[t], alone) = [alone EXCEPT ![u] = copy[t]]
      BY <1>9 DEF Flush, Course
    <2>2. ~Conflict(t) /\ Written(t) = copy[t]
      BY <1>1, <2>1 DEF Conflict, Written, Stored, Table
    <2>3. rows' = [rows EXCEPT ![u] = copy[t]] /\ pc' = [pc EXCEPT ![t] = "free"]
      BY <1>9, <2>2 DEF Flush
    <2>4. rows' = [alone EXCEPT ![u] = copy[t]]
      BY <1>1, <2>1, <2>3 DEF Table
    <2> QED
      BY <1>1, <2>1, <2>3, <2>4 DEF Exact, Served, Resting
  <1>10. CASE FindRemoved(t)
    <2>1. rows = alone /\ call[t] \in Removes /\ Served(t)
      BY <1>10, OthersServed DEF FindRemoved, Course, TypeInv, Matched
    <2>2. CASE ~Stored(u)
      <3>1. Effect(call[t], alone) = [alone EXCEPT ![u] = Absent]
        BY <2>1 DEF Effect, Outcome, Removes
      <3>2. [alone EXCEPT ![u] = Absent] = alone
        BY <1>1, <2>1, <2>2 DEF Stored, Table
      <3>3. rows' = rows /\ pc'[t] = "free"
        BY <1>1, <1>10, <2>2 DEF FindRemoved
      <3> QED
        BY <2>1, <3>1, <3>2, <3>3 DEF Exact, Served, Resting
    <2>3. CASE Stored(u)
      BY <1>1, <1>10, <2>1, <2>3 DEF FindRemoved, Course, Stored, Resting
    <2> QED
      BY <2>2, <2>3
  <1>11. CASE Remove(t)
    <2>1. rows = alone /\ Stored(u) /\ call[t] \in Removes /\ Served(t)
      BY <1>11, OthersServed DEF Remove, Course, TypeInv, Matched
    <2>2. Effect(call[t], alone) = [alone EXCEPT ![u] = Absent]
      BY <2>1 DEF Effect, Outcome, Removes
    <2> QED
      BY <1>1, <1>11, <2>1, <2>2 DEF Remove, Exact, Served, Resting
  <1> QED
    BY <1>2, <1>3, <1>4, <1>5, <1>6, <1>7, <1>8, <1>9, <1>10, <1>11 DEF Serve

LEMMA LoneStep == TypeInv /\ LoneInv /\ [Next]_vars => LoneInv'
  <1> SUFFICES ASSUME TypeInv, LoneInv, [Next]_vars PROVE LoneInv'
    OBVIOUS
  <1>0. ~up' => alone' = Nothing
    BY DEF LoneInv, vars, Next, Restart, Boot, Serve, Call, CheckNew, Find, LoadTokens,
       CheckUpdate, DeleteRow, Merge, Flush, FindRemoved, Remove, Go, End, At
  <1> SUFFICES ASSUME NEW t \in Thread, alone' # Nothing, pc'[t] \notin Resting
               PROVE  Course(t)'
    BY <1>0 DEF LoneInv
  <1>1. CASE UNCHANGED vars
    <2>1. Course(t)
      BY <1>1 DEF vars, LoneInv
    <2> QED
      BY <1>1, <2>1, ServedStays DEF vars, Course, Stored, Effect, Outcome, Change, NewRow, Negative
  <1>2. CASE Restart
    BY <1>2 DEF Restart
  <1>3. CASE Boot
    BY <1>3 DEF Boot, LoneInv
  <1>4. ASSUME NEW s \in Thread, Call(s) PROVE Course(t)'
    <2>1. alone' = rows /\ (\A w \in Thread : pc[w] \in Resting) /\ rows' = rows
      BY <1>4 DEF Call
    <2>2. PICK r \in Request : pc' = [pc EXCEPT ![s] = FirstPlace[r.op]]
      BY <1>4 DEF Call
    <2>3. \A w \in Thread : w # s => pc'[w] = pc[w]
      BY <2>2 DEF TypeInv, TypeOK
    <2>4. t = s /\ pc'[t] \in {"create.check", "token.find", "remove.find"}
      BY <2>1, <2>2, <2>3 DEF TypeInv, TypeOK, Request, FirstPlace
    <2> QED
      BY <2>1, <2>3, <2>4 DEF Course
  <1>5. ASSUME NEW s \in Thread, Serve(s), ~Call(s) PROVE Course(t)'
    <2>1. pc[s] \notin Resting
      BY <1>5 DEF Serve, CheckNew, Find, LoadTokens, CheckUpdate, DeleteRow, Merge, Flush,
         FindRemoved, Remove, At, Resting
    <2>2. alone' = alone \/ alone' = Nothing
      BY <1>5 DEF Serve, CheckNew, Find, LoadTokens, CheckUpdate, DeleteRow, Merge, Flush,
         FindRemoved, Remove, Go, End
    <2>3. Course(s)
      BY <2>1, <2>2 DEF LoneInv
    <2>4. s = t
      <3>1. \A w \in Thread : w # s => pc'[w] = pc[w]
        BY <1>5 DEF Serve, CheckNew, Find, LoadTokens, CheckUpdate, DeleteRow, Merge, Flush,
           FindRemoved, Remove, Go, End, TypeInv, TypeOK
      <3> QED
        BY <2>3, <3>1 DEF Course
    <2> QED
      BY <1>5, <2>1, <2>2, <2>3, <2>4, CourseStep
  <1> QED
    BY <1>1, <1>2, <1>3, <1>4, <1>5 DEF Next, Serve

LEMMA ExactStep ==
  TypeInv /\ LoneInv /\ [Next]_vars
    => \A t \in Thread : (alone # Nothing /\ pc[t] \notin Resting /\ pc'[t] \in Resting /\ up')
                         => Exact(t)
  <1> SUFFICES ASSUME TypeInv, LoneInv, [Next]_vars, NEW t \in Thread,
                      alone # Nothing, pc[t] \notin Resting, pc'[t] \in Resting, up'
               PROVE  Exact(t)
    OBVIOUS
  <1>1. PICK s \in Thread : Serve(s)
    BY DEF Next, Restart, Boot, vars
  <1>2. Course(t)
    BY DEF LoneInv
  <1>3. s = t
    <2>1. \A w \in Thread : w # s => pc'[w] = pc[w]
      BY <1>1 DEF Serve, Call, CheckNew, Find, LoadTokens, CheckUpdate, DeleteRow, Merge, Flush,
         FindRemoved, Remove, Go, End, TypeInv, TypeOK
    <2> QED
      BY <2>1
  <1> QED
    BY <1>1, <1>2, <1>3, CourseStep

\* A request that no other overlaps has all of its effect and no other, whatever raced before
\* it, and fails, with nothing deleted, exactly on the minutes createAPIToken refuses
\* (createUser, createAPIToken, updateUser, remove).
THEOREM UserLoneCallIsExact == Spec => LoneCallIsExact
  <1>1. Init => LoneInv
    BY DEF Init, LoneInv
  <1>2. TypeInv /\ LoneInv /\ [Next]_vars
          => [\A t \in Thread :
               (alone # Nothing /\ pc[t] \notin Resting /\ pc'[t] \in Resting /\ up')
               => IF Refused(call[t], alone) THEN pc'[t] = "failed" /\ rows' = alone
                  ELSE pc'[t] = "free" /\ rows' = Effect(call[t], alone)]_vars
    BY ExactStep DEF Exact
  <1> QED
    BY InitType, TypeStep, LoneStep, <1>1, <1>2, PTL DEF Spec, LoneCallIsExact
=============================================================================
