----------------------------- MODULE UserStore -----------------------------
(***************************************************************************)
(* The users of a CIM and their tokens: UsersController and UserService    *)
(* over the table of users, call by call as the database sees them.        *)
(*                                                                         *)
(* A thread serves one request at a time and keeps one persistence session *)
(* for it (Spring's open session in view); each call of the repository is  *)
(* a transaction of its own.  A session remembers the row it read (base)   *)
(* next to the object the code changes (copy), and a save writes the       *)
(* difference of the two.                                                  *)
(*                                                                         *)
(* A caller is let in when the user its token names is stored; any other   *)
(* call is answered with 401 and changes nothing, so it is a stuttering    *)
(* step.  Logins and listings write nothing and are left out.              *)
(***************************************************************************)
CONSTANTS
    User, Token, Password,
    Brought,         \* the sets of tokens the body that creates a user may carry
    Thread,          \* the threads that serve requests
    Root, Default,   \* the user that is stored when there is none, and its password
    Absent,          \* what the table holds of a user that is not stored
    Nothing          \* no request, no table

Row == [password : Password, tokens : SUBSET Token]
Table == [User -> Row \cup {Absent}]
\* The minutes a request asks a token to be valid: no number, a negative one, or one that makes
\* a token that is over (zero minutes, but in the first millisecond of a second) or valid when
\* its expiry is read.
Minutes == {"no number", "negative", "over", "valid"}
Request ==
    [op : {"create"}, user : User, password : Password, tokens : Brought]
    \cup [op : {"add"}, user : User, token : Token, minutes : Minutes]
    \cup [op : {"cut"}, user : User, token : Token]
    \cup [op : {"remove"}, user : User]

ASSUME UserAssumption ==
    /\ Root \in User /\ Brought \subseteq SUBSET Token /\ Default \in Password
    /\ Absent \notin Row /\ Nothing \notin Request /\ Nothing \notin Table

VARIABLES
    rows,      \* the table of users with their tokens
    pc, call,  \* where each thread is, and the request it serves
    base,      \* the row the session of each thread read, Absent if there was none
    copy,      \* the object the thread works on
    up,        \* the CIM accepts requests
    intact,    \* history: users that were stored and not removed since, in this process
    removed,   \* history: a user was removed since the CIM started
    alone      \* history: the table as the only running request found it

vars == <<rows, pc, call, base, copy, up, intact, removed, alone>>

\* A thread that answered with 500, or in any other way.
Resting == {"free", "failed"}
Place == Resting \cup {"create.check", "token.find", "token.load", "update.check",
                       "update.delete", "save.merge", "save.flush",
                       "remove.find", "remove.delete"}
\* Where a session holds an object of the user.
Holding == {"token.load", "update.check", "update.delete", "save.merge", "save.flush"}

Stored(u) == rows[u] # Absent

Init ==
    /\ rows = [u \in User |-> Absent]
    /\ pc = [t \in Thread |-> "free"]
    /\ call = [t \in Thread |-> Nothing]
    /\ base = [t \in Thread |-> Absent]
    /\ copy = [t \in Thread |-> Absent]
    /\ up = FALSE
    /\ intact = [u \in User |-> FALSE]
    /\ removed = FALSE
    /\ alone = Nothing

At(t, place) == up /\ pc[t] = place
Go(t, place) == pc' = [pc EXCEPT ![t] = place] /\ UNCHANGED <<call, up, alone>>
End(t, outcome) ==
    /\ pc' = [pc EXCEPT ![t] = outcome]
    /\ call' = [call EXCEPT ![t] = Nothing]
    /\ base' = [base EXCEPT ![t] = Absent]
    /\ copy' = [copy EXCEPT ![t] = Absent]
    /\ alone' = Nothing
    /\ UNCHANGED up
History == <<intact, removed>>

FirstPlace == [create |-> "create.check", add |-> "token.find", cut |-> "token.find",
               remove |-> "remove.find"]

\* A request of a caller that names a stored user.
Call(t) ==
    /\ up /\ pc[t] \in Resting
    /\ \E caller \in User : Stored(caller)
    /\ \E r \in Request :
         /\ pc' = [pc EXCEPT ![t] = FirstPlace[r.op]]
         /\ call' = [call EXCEPT ![t] = r]
    /\ alone' = IF \A s \in Thread : pc[s] \in Resting THEN rows ELSE Nothing
    /\ UNCHANGED <<rows, base, copy, up, History>>

\* What createUser is to store of a request.
NewRow(r) == [password |-> r.password, tokens |-> r.tokens]

\* createUser: a user that is stored already is left alone, and the answer is 201.
CheckNew(t) ==
    /\ At(t, "create.check")
    /\ \/ Stored(call[t].user) /\ End(t, "free")
       \/ /\ ~Stored(call[t].user)
          /\ copy' = [copy EXCEPT ![t] = NewRow(call[t])]
          /\ Go(t, "save.merge")
          /\ UNCHANGED base
    /\ UNCHANGED <<rows, History>>

NoNumber(r) == r.op = "add" /\ r.minutes = "no number"
Negative(r) == r.op = "add" /\ r.minutes = "negative"
Over(r) == r.op = "add" /\ r.minutes = "over"

\* Mutated: the check of the user that was found is dropped.
Find_Unchecked(t) ==
    /\ At(t, "token.find")
    /\ copy' = [copy EXCEPT ![t] = rows[call[t].user]]
    /\ Go(t, "token.load")
    /\ UNCHANGED <<base, rows, History>>

\* getUser, and what createAPIToken checks before it touches the tokens, which are read later.
\* Minutes that are no number fail the request, whoever it is for; negative ones add nothing; a
\* token that is over fails it when its expiry is read.
Find(t) ==
    LET r == call[t] IN
    /\ At(t, "token.find")
    /\ \/ NoNumber(r) /\ End(t, "failed")
       \/ ~NoNumber(r) /\ (~Stored(r.user) \/ Negative(r)) /\ End(t, "free")
       \/ Over(r) /\ Stored(r.user) /\ End(t, "failed")
       \/ /\ ~NoNumber(r) /\ ~Negative(r) /\ ~Over(r) /\ Stored(r.user)
          /\ copy' = [copy EXCEPT ![t] = [rows[r.user] EXCEPT !.tokens = {}]]
          /\ Go(t, "token.load")
          /\ UNCHANGED base
    /\ UNCHANGED <<rows, History>>

StoredTokens(u) == IF Stored(u) THEN rows[u].tokens ELSE {}
Change(r, tokens) == IF r.op = "add" THEN tokens \cup {r.token} ELSE tokens \ {r.token}

\* Mutated: the tokens that are stored are not read, the new map has one entry at most.
LoadTokens_Fresh(t) ==
    /\ At(t, "token.load")
    /\ base' = [base EXCEPT ![t] = copy[t]]
    /\ copy' = [copy EXCEPT ![t] = [copy[t] EXCEPT !.tokens = Change(call[t], {})]]
    /\ Go(t, "update.check")
    /\ UNCHANGED <<rows, History>>

\* user.getTokens() and the put or remove on it.
LoadTokens(t) ==
    LET tokens == StoredTokens(call[t].user) IN
    /\ At(t, "token.load")
    /\ base' = [base EXCEPT ![t] = [copy[t] EXCEPT !.tokens = tokens]]
    /\ copy' = [copy EXCEPT ![t] = [copy[t] EXCEPT !.tokens = Change(call[t], tokens)]]
    /\ Go(t, "update.check")
    /\ UNCHANGED <<rows, History>>

\* updateUser: a user that is not stored any more is saved without a delete, and its object
\* is still the one the session read.
CheckUpdate(t) ==
    /\ At(t, "update.check")
    /\ Go(t, IF Stored(call[t].user) THEN "update.delete" ELSE "save.flush")
    /\ UNCHANGED <<rows, base, copy, History>>

\* updateUser: the delete fails when the row is gone.
DeleteRow(t) ==
    /\ At(t, "update.delete")
    /\ \/ /\ ~Stored(call[t].user)
          /\ End(t, "failed")
          /\ UNCHANGED rows
       \/ /\ Stored(call[t].user)
          /\ rows' = [rows EXCEPT ![call[t].user] = Absent]
          /\ Go(t, "save.merge")
          /\ UNCHANGED <<base, copy>>
    /\ UNCHANGED History

\* Mutated: the object that was deleted is taken for one that is stored.
Merge_Managed(t) ==
    /\ At(t, "save.merge")
    /\ Go(t, "save.flush")
    /\ UNCHANGED <<rows, base, copy, History>>

\* The save of an object the session does not know reads what is stored.
Merge(t) ==
    /\ At(t, "save.merge")
    /\ base' = [base EXCEPT ![t] = rows[call[t].user]]
    /\ Go(t, "save.flush")
    /\ UNCHANGED <<rows, copy, History>>

NewTokens(t) == copy[t].tokens \ base[t].tokens
NewPassword(t) == copy[t].password # base[t].password

\* What the save writes: a row that was not there, or the differences to one that was.
Written(t) ==
    LET u == call[t].user IN
    CASE base[t] = Absent -> copy[t]
      [] base[t] # Absent /\ ~Stored(u) -> Absent
      [] OTHER -> [password |-> IF NewPassword(t) THEN copy[t].password ELSE rows[u].password,
                   tokens |-> (rows[u].tokens \ (base[t].tokens \ copy[t].tokens))
                              \cup NewTokens(t)]
\* The keys of the tables: one row per user, one per token of a stored user.
Conflict(t) ==
    LET u == call[t].user IN
    IF base[t] = Absent THEN Stored(u)
    ELSE IF Stored(u) THEN NewTokens(t) \cap rows[u].tokens # {}
    ELSE NewTokens(t) # {} \/ NewPassword(t)

\* The save is committed, or fails as a whole.
Flush(t) ==
    /\ At(t, "save.flush")
    /\ \/ /\ Conflict(t)
          /\ End(t, "failed")
          /\ UNCHANGED <<rows, intact>>
       \/ /\ ~Conflict(t)
          /\ rows' = [rows EXCEPT ![call[t].user] = Written(t)]
          /\ intact' = [intact EXCEPT ![call[t].user] = @ \/ Written(t) # Absent]
          /\ End(t, "free")
    /\ UNCHANGED removed

\* remove: a user that is not found is left alone.
FindRemoved(t) ==
    /\ At(t, "remove.find")
    /\ \/ ~Stored(call[t].user) /\ End(t, "free")
       \/ Stored(call[t].user) /\ Go(t, "remove.delete") /\ UNCHANGED <<base, copy>>
    /\ UNCHANGED <<rows, History>>

\* remove: the delete fails when the row is gone.
Remove(t) ==
    /\ At(t, "remove.delete")
    /\ \/ /\ ~Stored(call[t].user)
          /\ End(t, "failed")
          /\ UNCHANGED <<rows, History>>
       \/ /\ Stored(call[t].user)
          /\ rows' = [rows EXCEPT ![call[t].user] = Absent]
          /\ intact' = [intact EXCEPT ![call[t].user] = FALSE]
          /\ removed' = TRUE
          /\ End(t, "free")

\* The process stops anywhere; transactions that were committed stay.
Restart ==
    /\ up
    /\ up' = FALSE
    /\ pc' = [t \in Thread |-> "free"]
    /\ call' = [t \in Thread |-> Nothing]
    /\ base' = [t \in Thread |-> Absent]
    /\ copy' = [t \in Thread |-> Absent]
    /\ intact' = [u \in User |-> Stored(u)]
    /\ alone' = Nothing
    /\ UNCHANGED <<rows, removed>>

\* Mutated: the check for an empty table is negated.
Boot_Inverted ==
    /\ ~up
    /\ up' = TRUE
    /\ removed' = FALSE
    /\ rows' = IF \A u \in User : ~Stored(u) THEN rows
               ELSE [rows EXCEPT ![Root] = [password |-> Default, tokens |-> {}]]
    /\ intact' = [u \in User |-> rows'[u] # Absent]
    /\ UNCHANGED <<pc, call, base, copy, alone>>

\* initUsers runs before the server accepts requests.
Boot ==
    /\ ~up
    /\ up' = TRUE
    /\ removed' = FALSE
    /\ rows' = IF \E u \in User : Stored(u) THEN rows
               ELSE [rows EXCEPT ![Root] = [password |-> Default, tokens |-> {}]]
    /\ intact' = [u \in User |-> rows'[u] # Absent]
    /\ UNCHANGED <<pc, call, base, copy, alone>>

Serve(t) ==
    \/ Call(t) \/ CheckNew(t) \/ Find(t) \/ LoadTokens(t) \/ CheckUpdate(t) \/ DeleteRow(t)
    \/ Merge(t) \/ Flush(t) \/ FindRemoved(t) \/ Remove(t)
Next == Restart \/ Boot \/ \E t \in Thread : Serve(t)
Spec == Init /\ [][Next]_vars

-----------------------------------------------------------------------------
(* Properties. *)

\* Types, and what a session holds: a thread that changes, deletes or saves a user works on an
\* object of that user, which the code read or was given before.
TypeOK ==
    /\ rows \in Table
    /\ pc \in [Thread -> Place]
    /\ call \in [Thread -> Request \cup {Nothing}]
    /\ \A t \in Thread : pc[t] \in Resting <=> call[t] = Nothing
    /\ base \in [Thread -> Row \cup {Absent}]
    /\ copy \in [Thread -> Row \cup {Absent}]
    /\ \A t \in Thread : pc[t] \in Holding => copy[t] # Absent
    /\ up \in BOOLEAN /\ removed \in BOOLEAN
    /\ intact \in [User -> BOOLEAN]
    /\ alone \in Table \cup {Nothing}

\* A thread that will store u: it deleted the row, or is about to insert one.
Saves(t, u) ==
    /\ pc[t] \in {"save.merge", "save.flush"} /\ call[t].user = u
    /\ pc[t] = "save.flush" => base[t] = Absent

\* Replacing a user by a delete and a save never loses one while the process lives: a user that
\* was stored and that nobody removed is in the table or on its way there, however the requests
\* of several administrators interleave and whichever of them fail.
KeepsUser ==
    \A u \in User : intact[u] => Stored(u) \/ \E t \in Thread : Saves(t, u)

\* What a request is to make of the row of its user, and of a table.
Outcome(r, row) ==
    IF r.op = "create" THEN IF row = Absent THEN NewRow(r) ELSE row
    ELSE IF r.op = "remove" \/ row = Absent THEN Absent
    ELSE IF Negative(r) THEN row
    ELSE [row EXCEPT !.tokens = Change(r, @)]
Effect(r, table) == [table EXCEPT ![r.user] = Outcome(r, @)]
\* What createAPIToken fails on: minutes it cannot read, and a token that is over already.
Refused(r, table) ==
    \/ NoNumber(r)
    \/ Over(r) /\ table[r.user] # Absent

\* A request that no other overlaps does what it is to do, all of it and nothing else: the
\* delete, the merge and the save of a token's user leave its password, its other tokens and
\* the other users as they were, whatever races came before.  It fails on the minutes
\* createAPIToken refuses and on nothing else, and then before anything was deleted.
LoneCallIsExact ==
    [][\A t \in Thread :
         (alone # Nothing /\ pc[t] \notin Resting /\ pc'[t] \in Resting /\ up')
         => IF Refused(call[t], alone) THEN pc'[t] = "failed" /\ rows' = alone
            ELSE pc'[t] = "free" /\ rows' = Effect(call[t], alone)]_vars

\* A running CIM has a user to log in with, unless a user was removed since it started: also
\* when the process stopped after the only user was deleted to be saved anew.
NeverLockedOut ==
    up => removed \/ \E u \in User : Stored(u) \/ \E t \in Thread : Saves(t, u)
=============================================================================
