--------------------------- MODULE Accounts_proofs ---------------------------
(***************************************************************************)
(* A session that was ended stays ended, whatever requests are under way;  *)
(* a wiki with accounts has an owner among them; sessions are worth their  *)
(* password and last as long as they are used; and notes of the open wiki  *)
(* find the account that claimed it.                                       *)
(*                                                                         *)
(* That a token's row is gone does not keep by itself: a sign-in might     *)
(* mint the token once more, and a renewal might put the row back.  What   *)
(* keeps is that tokens are minted in order and a row is only where a      *)
(* token was minted, that a token somebody ended is one of those, and that *)
(* a request in the middle of its session has such a token in hand.        *)
(***************************************************************************)
EXTENDS Accounts, FiniteSetTheorems, NaturalsInduction, WellFoundedInduction, TLAPS

Ops == {"none", "create", "patch", "delete", "login", "logout", "note"}

\* Where a request goes on with the token it came with.
WithToken == {"session", "account", "renew"}

\* What a request has in hand, when n tokens have been minted.
Hand(h, n) ==
    /\ {"at", "op", "token"} \subseteq DOMAIN h
    /\ h.op \in Ops
    /\ h.token \in 1..n \cup {None}
    /\ h.at \in WithToken => h.token # None

HandsFit == /\ DOMAIN task = Clients
            /\ \A c \in Clients : Hand(task[c], minted)

RowsAreMinted == /\ minted \in 0..MaxSignIns
                 /\ DOMAIN sessions = Tokens
                 /\ \A k \in Tokens : sessions[k] # None => k <= minted

EndedWereMinted == ended \subseteq 1..minted

IInv == HandsFit /\ RowsAreMinted /\ EndedWereMinted /\ EndedStaysEnded

-----------------------------------------------------------------------------
(* What a request has in hand.                                             *)

\* A request that has nothing in hand.
LEMMA RestFits == ASSUME NEW n \in Nat PROVE Hand(Rest, n)
BY DEF Hand, Rest, Ops, WithToken

\* Hands keep when more tokens are minted.
LEMMA HandLasts ==
    ASSUME NEW h, NEW n \in Nat, NEW m \in Nat, n <= m, Hand(h, n)
    PROVE  Hand(h, m)
BY DEF Hand

\* A request that goes somewhere with a hand that fits leaves hands that fit.
LEMMA GoFits ==
    ASSUME HandsFit, minted \in Nat, minted' \in Nat, minted <= minted',
           NEW c \in Clients, NEW where, NEW t, Hand(t, minted'),
           where \in WithToken => t.token # None,
           Go(c, where, t)
    PROVE  HandsFit'
<1>1. Hand([t EXCEPT !.at = where], minted')
  BY DEF Hand
<1>2. DOMAIN task' = Clients
  BY DEF HandsFit, Go
<1>3. ASSUME NEW d \in Clients PROVE Hand(task'[d], minted')
  <2>1. CASE d = c
    BY <1>1, <2>1 DEF HandsFit, Go
  <2>2. CASE d # c
    <3>1. task'[d] = task[d] /\ Hand(task[d], minted)
      BY <2>2 DEF HandsFit, Go
    <3> QED BY <3>1, HandLasts
  <2> QED BY <2>1, <2>2
<1> QED BY <1>2, <1>3 DEF HandsFit

\* A request that is over leaves hands that fit.
LEMMA DoneFits ==
    ASSUME HandsFit, minted \in Nat, UNCHANGED minted, NEW c \in Clients, Done(c)
    PROVE  HandsFit'
<1>1. DOMAIN task' = Clients
  BY DEF HandsFit, Done
<1>2. ASSUME NEW d \in Clients PROVE Hand(task'[d], minted)
  BY RestFits DEF HandsFit, Done
<1> QED BY <1>1, <1>2 DEF HandsFit

\* A request the gate lets through goes on with what it asks.
LEMMA AdmitFits ==
    ASSUME HandsFit, minted \in Nat, UNCHANGED minted, NEW c \in Clients, NEW viewer,
           Admit(c, viewer)
    PROVE  HandsFit'
<1> DEFINE t == [task[c] EXCEPT !.viewer = viewer]
<1>1. Hand(t, minted')
  BY DEF HandsFit, Hand
<1>2. task[c].op \notin WithToken
  BY DEF HandsFit, Hand, Ops, WithToken
<1>3. Go(c, task[c].op, t)
  BY DEF Admit
<1> HIDE DEF t
<1> QED BY <1>1, <1>2, <1>3, GoFits

LEMMA AdmitNobodyFits ==
    ASSUME HandsFit, minted \in Nat, UNCHANGED minted, NEW c \in Clients, AdmitNobody(c)
    PROVE  HandsFit'
BY AdmitFits, DoneFits DEF AdmitNobody

-----------------------------------------------------------------------------
(* Steps that end no session, start none and look at none.                 *)

\* Where no row, no token and nothing of what was ended changes, hands decide.
LEMMA RowsKeep ==
    ASSUME IInv, keepRows, HandsFit'
    PROVE  IInv'
BY DEF IInv, keepRows, RowsAreMinted, EndedWereMinted, EndedStaysEnded

LEMMA MintedIsNat ==
    ASSUME IInv PROVE minted \in Nat
BY AccountBounds DEF IInv, RowsAreMinted

\* The gate, and what it leads to with a token.
LEMMA AskKeeps ==
    ASSUME IInv, NEW c \in Clients, Ask(c) PROVE IInv'
<1>1. PICK what \in Asked, token \in 1..minted \cup {None} :
        Go(c, "gate", [Rest EXCEPT !.op = what.op, !.name = what.name, !.role = what.role,
                                   !.pass = what.pass, !.token = token, !.now = now])
  BY DEF Ask
<1> DEFINE t == [Rest EXCEPT !.op = what.op, !.name = what.name, !.role = what.role,
                             !.pass = what.pass, !.token = token, !.now = now]
<1>2. what.op \in Ops
  BY AccountAsked DEF Ops
<1>3. minted' = minted /\ keepRows
  BY DEF Ask, keepRows
<1>4. Hand(t, minted')
  BY <1>2, <1>3 DEF Hand, Rest, WithToken
<1>5. Go(c, "gate", t) /\ "gate" \notin WithToken
  BY <1>1 DEF WithToken
<1> HIDE DEF t
<1>6. HandsFit'
  BY <1>3, <1>4, <1>5, MintedIsNat, GoFits DEF IInv
<1> QED BY <1>3, <1>6, RowsKeep

LEMMA GateKeeps ==
    ASSUME IInv, NEW c \in Clients, Gate(c) PROVE IInv'
<1>1. minted' = minted /\ keepRows
  BY DEF Gate, keepRows
<1>2. CASE There = {}
  <2>1. Admit(c, [Nobody EXCEPT !.kind = "open"])
    BY <1>2 DEF Gate
  <2>2. HandsFit'
    BY <2>1, <1>1, MintedIsNat, AdmitFits DEF IInv
  <2> QED BY <2>2, <1>1, RowsKeep
<1>3. CASE There # {} /\ task[c].token = None
  <2>1. AdmitNobody(c)
    BY <1>3 DEF Gate
  <2>2. HandsFit'
    BY <2>1, <1>1, MintedIsNat, AdmitNobodyFits DEF IInv
  <2> QED BY <2>2, <1>1, RowsKeep
<1>4. CASE There # {} /\ task[c].token # None
  <2>1. Go(c, "session", task[c])
    BY <1>4 DEF Gate
  <2>2. Hand(task[c], minted')
    BY <1>1 DEF IInv, HandsFit
  <2>3. HandsFit'
    BY <1>1, <1>4, <2>1, <2>2, MintedIsNat, GoFits DEF IInv
  <2> QED BY <2>3, <1>1, RowsKeep
<1> QED BY <1>2, <1>3, <1>4

\* The steps of the handlers that touch accounts and notes only: each ends,
\* or goes somewhere with what it read.
LEMMA HandlersKeep ==
    ASSUME IInv, keepRows, NEW c \in Clients,
           \/ Done(c)
           \/ \E where, h : /\ Go(c, where, h) /\ where \notin WithToken
                            /\ Hand(h, minted)
    PROVE  IInv'
<1>1. minted' = minted
  BY DEF keepRows
<1>2. CASE Done(c)
  BY <1>1, <1>2, MintedIsNat, DoneFits, RowsKeep DEF IInv
<1>3. ASSUME NEW where, NEW h, Go(c, where, h), where \notin WithToken, Hand(h, minted)
      PROVE  IInv'
  BY <1>1, <1>3, MintedIsNat, GoFits, RowsKeep DEF IInv
<1> QED BY <1>2, <1>3

LEMMA CreateKeeps ==
    ASSUME IInv, NEW c \in Clients, CreateLook(c) \/ CreateCheck(c) \/ CreateWrite(c)
    PROVE  IInv'
<1> DEFINE h(boot) == [task[c] EXCEPT !.boot = boot, !.role = NewRole(boot, @)]
<1>1. Hand(task[c], minted) /\ \A boot : Hand(h(boot), minted)
  BY DEF IInv, HandsFit, Hand
<1>2. {"create check", "create write", "adopt"} \cap WithToken = {}
  BY DEF WithToken
<1>3. keepRows
  BY DEF CreateLook, CreateCheck, CreateWrite
<1>4. CASE CreateLook(c)
  <2>1. Done(c) \/ Go(c, "create check", h(There = {}))
    BY <1>4 DEF CreateLook
  <2> HIDE DEF h
  <2> QED BY <2>1, <1>1, <1>2, <1>3, HandlersKeep
<1>5. CASE CreateCheck(c)
  <2>1. Done(c) \/ Go(c, "create write", task[c])
    BY <1>5 DEF CreateCheck
  <2> QED BY <2>1, <1>1, <1>2, <1>3, HandlersKeep
<1>6. CASE CreateWrite(c)
  <2>1. Done(c) \/ Go(c, "adopt", task[c])
    BY <1>6 DEF CreateWrite
  <2> QED BY <2>1, <1>1, <1>2, <1>3, HandlersKeep
<1> QED BY <1>4, <1>5, <1>6

LEMMA PatchKeeps ==
    ASSUME IInv, NEW c \in Clients, PatchRead(c) \/ PatchCheck(c) \/ PatchWrite(c)
    PROVE  IInv'
<1> DEFINE seen(file)    == [task[c] EXCEPT !.seen = file]
           among(others) == [task[c] EXCEPT !.others = others]
<1>1. Hand(task[c], minted) /\ \A x : Hand(seen(x), minted) /\ Hand(among(x), minted)
  BY DEF IInv, HandsFit, Hand
<1>2. {"patch check", "patch write", "revoke"} \cap WithToken = {}
  BY DEF WithToken
<1>3. keepRows
  BY DEF PatchRead, PatchCheck, PatchWrite
<1>4. CASE PatchRead(c)
  <2>1. Done(c) \/ Go(c, "patch check", seen(accounts[task[c].name]))
    BY <1>4 DEF PatchRead
  <2> HIDE DEF seen, among
  <2> QED BY <2>1, <1>1, <1>2, <1>3, HandlersKeep
<1>5. CASE PatchCheck(c)
  <2>1. Done(c) \/ Go(c, "patch write", among(Owners \ {task[c].name}))
    BY <1>5 DEF PatchCheck
  <2> HIDE DEF seen, among
  <2> QED BY <2>1, <1>1, <1>2, <1>3, HandlersKeep
<1>6. CASE PatchWrite(c)
  <2>1. Done(c) \/ Go(c, "revoke", task[c])
    BY <1>6 DEF PatchWrite
  <2> HIDE DEF seen, among
  <2> QED BY <2>1, <1>1, <1>2, <1>3, HandlersKeep
<1> QED BY <1>4, <1>5, <1>6

LEMMA DeleteKeeps ==
    ASSUME IInv, NEW c \in Clients, DeleteRead(c) \/ DeleteCheck(c) \/ DeleteFile(c)
    PROVE  IInv'
<1> DEFINE seen(file)    == [task[c] EXCEPT !.seen = file]
           among(others) == [task[c] EXCEPT !.others = others]
<1>1. Hand(task[c], minted) /\ \A x : Hand(seen(x), minted) /\ Hand(among(x), minted)
  BY DEF IInv, HandsFit, Hand
<1>2. {"delete check", "delete file", "revoke"} \cap WithToken = {}
  BY DEF WithToken
<1>3. keepRows
  BY DEF DeleteRead, DeleteCheck, DeleteFile
<1>4. CASE DeleteRead(c)
  <2>1. Done(c) \/ Go(c, "delete check", seen(accounts[task[c].name]))
    BY <1>4 DEF DeleteRead
  <2> HIDE DEF seen, among
  <2> QED BY <2>1, <1>1, <1>2, <1>3, HandlersKeep
<1>5. CASE DeleteCheck(c)
  <2>1. Done(c) \/ Go(c, "delete file", among(Owners \ {task[c].name}))
    BY <1>5 DEF DeleteCheck
  <2> HIDE DEF seen, among
  <2> QED BY <2>1, <1>1, <1>2, <1>3, HandlersKeep
<1>6. CASE DeleteFile(c)
  <2>1. Done(c) \/ Go(c, "revoke", task[c])
    BY <1>6 DEF DeleteFile
  <2> HIDE DEF seen, among
  <2> QED BY <2>1, <1>1, <1>2, <1>3, HandlersKeep
<1> QED BY <1>4, <1>5, <1>6

LEMMA NotesKeep ==
    ASSUME IInv, NEW c \in Clients, WriteNote(c) \/ AdoptLook(c) \/ Adopt(c)
    PROVE  IInv'
<1> DEFINE heir(todo, n) == [task[c] EXCEPT !.todo = todo, !.name = n]
           left(r)       == [task[c] EXCEPT !.todo = @ \ {r}]
<1>1. (\A todo, n : Hand(heir(todo, n), minted)) /\ \A r : Hand(left(r), minted)
  BY DEF IInv, HandsFit, Hand
<1>2. "adopting" \notin WithToken
  BY DEF WithToken
<1>3. keepRows
  BY DEF WriteNote, AdoptLook, Adopt
<1>4. CASE WriteNote(c)
  BY <1>3, <1>4, HandlersKeep DEF WriteNote
<1>5. CASE AdoptLook(c)
  <2>1. Done(c) \/ Go(c, "adopting", heir(Unowned, Heir(c)))
    BY <1>5 DEF AdoptLook
  <2> HIDE DEF heir, left
  <2> QED BY <2>1, <1>1, <1>2, <1>3, HandlersKeep
<1>6. CASE Adopt(c)
  <2>1. Done(c) \/ \E r \in task[c].todo : Go(c, "adopting", left(r))
    BY <1>6 DEF Adopt
  <2> HIDE DEF heir, left
  <2> QED BY <2>1, <1>1, <1>2, <1>3, HandlersKeep
<1> QED BY <1>4, <1>5, <1>6

-----------------------------------------------------------------------------
(* Steps that look at a row or take one away.                              *)

\* Rows may go, and what is ended is what was minted and has none.
LEMMA RowsGo ==
    ASSUME IInv, HandsFit', minted' = minted, DOMAIN sessions' = Tokens,
           \A k \in Tokens : sessions[k] = None => sessions'[k] = None,
           ended' \subseteq 1..minted,
           \A k \in ended' \ ended : sessions'[k] = None
    PROVE  IInv'
<1>1. 1..minted \subseteq Tokens
  BY AccountBounds DEF IInv, RowsAreMinted, Tokens
<1>2. RowsAreMinted' /\ EndedWereMinted'
  BY DEF IInv, RowsAreMinted, EndedWereMinted
<1>3. EndedStaysEnded'
  BY <1>1 DEF IInv, EndedWereMinted, EndedStaysEnded
<1> QED BY <1>2, <1>3 DEF IInv

LEMMA LookUpKeeps ==
    ASSUME IInv, NEW c \in Clients, LookUpSession(c) PROVE IInv'
<1> DEFINE h == [task[c] EXCEPT !.seen = sessions[task[c].token]]
<1>1. minted' = minted /\ ended' = ended
  BY DEF LookUpSession
<1>2. Hand(h, minted') /\ task[c].token # None /\ h.token = task[c].token
  BY <1>1 DEF IInv, HandsFit, Hand, LookUpSession, At, WithToken
<1>3. \/ AdmitNobody(c) /\ sessions' = [sessions EXCEPT ![task[c].token] = None]
      \/ Go(c, "account", h) /\ UNCHANGED sessions
  BY DEF LookUpSession
<1> HIDE DEF h
<1>4. HandsFit'
  BY <1>1, <1>2, <1>3, MintedIsNat, AdmitNobodyFits, GoFits DEF IInv
<1>5. DOMAIN sessions' = Tokens /\ \A k \in Tokens : sessions[k] = None => sessions'[k] = None
  BY <1>3 DEF IInv, RowsAreMinted
<1> QED BY <1>1, <1>4, <1>5, RowsGo DEF IInv, EndedWereMinted

LEMMA FindAccountKeeps ==
    ASSUME IInv, NEW c \in Clients, FindAccount(c) PROVE IInv'
<1> DEFINE h(viewer) == [task[c] EXCEPT !.viewer = viewer]
           k == task[c].token
<1>1. minted' = minted /\ k \in 1..minted /\ k \in Tokens
  BY AccountBounds DEF FindAccount, IInv, HandsFit, Hand, At, WithToken, RowsAreMinted, Tokens
<1>2. \A viewer : Hand(h(viewer), minted') /\ h(viewer).token = k
  BY <1>1 DEF IInv, HandsFit, Hand
<1>3. k # None
  BY DEF FindAccount, IInv, HandsFit, Hand, At, WithToken
<1>4. \/ /\ AdmitNobody(c) /\ sessions' = [sessions EXCEPT ![k] = None] /\ ended' = ended \cup {k}
      \/ /\ UNCHANGED <<sessions, ended>>
         /\ \/ Done(c)
            \/ \E viewer : Admit(c, viewer) \/ Go(c, "renew", h(viewer))
  BY DEF FindAccount
<1> HIDE DEF h, k
<1>5. HandsFit'
  BY <1>1, <1>2, <1>3, <1>4, MintedIsNat, AdmitNobodyFits, AdmitFits, DoneFits, GoFits DEF IInv
<1>6. /\ DOMAIN sessions' = Tokens
      /\ \A j \in Tokens : sessions[j] = None => sessions'[j] = None
      /\ \A j \in ended' \ ended : sessions'[j] = None
  BY <1>1, <1>4 DEF IInv, RowsAreMinted
<1> QED BY <1>1, <1>4, <1>5, <1>6, RowsGo DEF IInv, EndedWereMinted

\* The renewal of a row that is gone brings nothing back.
LEMMA RenewKeeps ==
    ASSUME IInv, NEW c \in Clients, Renew(c) PROVE IInv'
<1>1. minted' = minted /\ ended' = ended
  BY DEF Renew
<1>2. Hand(task[c], minted') /\ task[c].op \notin WithToken
  BY <1>1 DEF IInv, HandsFit, Hand, Ops, WithToken
<1>3. HandsFit'
  BY <1>1, <1>2, MintedIsNat, GoFits DEF IInv, Renew
<1>4. \/ sessions' = [sessions EXCEPT ![task[c].token] = Renewed(@, task[c].seen, task[c].now)]
      \/ UNCHANGED sessions
  BY DEF Renew
<1>5. DOMAIN sessions' = Tokens /\ \A k \in Tokens : sessions[k] = None => sessions'[k] = None
  BY <1>4 DEF IInv, RowsAreMinted, Renewed
<1> QED BY <1>1, <1>3, <1>5, RowsGo DEF IInv, EndedWereMinted

LEMMA RevokeKeeps ==
    ASSUME IInv, NEW c \in Clients, Revoke(c) PROVE IInv'
<1>1. minted' = minted /\ Done(c) /\ ended' = ended \cup Revoked(task[c])
  BY DEF Revoke
<1>2. sessions' = [k \in Tokens |-> IF k \in Revoked(task[c]) THEN None ELSE sessions[k]]
  BY DEF Revoke
<1>3. HandsFit'
  BY <1>1, MintedIsNat, DoneFits DEF IInv
<1>4. Revoked(task[c]) \subseteq 1..minted /\ Revoked(task[c]) \subseteq Tokens
  BY AccountBounds DEF Revoked, IInv, RowsAreMinted, Tokens
<1> QED BY <1>1, <1>2, <1>3, <1>4, RowsGo DEF IInv, EndedWereMinted

LEMMA PurgeKeeps ==
    ASSUME IInv, NEW c \in Clients, Purge(c) PROVE IInv'
<1>1. minted' = minted /\ Done(c) /\ ended' = ended
  BY DEF Purge
<1>2. DOMAIN sessions' = Tokens /\ \A k \in Tokens : sessions[k] = None => sessions'[k] = None
  BY DEF Purge
<1>3. HandsFit'
  BY <1>1, MintedIsNat, DoneFits DEF IInv
<1> QED BY <1>1, <1>2, <1>3, RowsGo DEF IInv, EndedWereMinted

LEMMA LogOutKeeps ==
    ASSUME IInv, NEW c \in Clients, LogOut(c) PROVE IInv'
<1>1. minted' = minted /\ Done(c)
  BY DEF LogOut
<1>2. HandsFit'
  BY <1>1, MintedIsNat, DoneFits DEF IInv
<1>3. CASE task[c].token = None
  <2>1. UNCHANGED <<sessions, ended>>
    BY <1>3 DEF LogOut
  <2> QED BY <1>1, <1>2, <2>1, RowsGo DEF IInv, EndedWereMinted, RowsAreMinted
<1>4. CASE task[c].token # None
  <2>1. task[c].token \in 1..minted /\ task[c].token \in Tokens
    BY <1>4, AccountBounds DEF IInv, HandsFit, Hand, RowsAreMinted, Tokens
  <2>2. /\ sessions' = [sessions EXCEPT ![task[c].token] = None]
        /\ ended' = ended \cup {task[c].token}
    BY <1>4 DEF LogOut
  <2> QED BY <1>1, <1>2, <2>1, <2>2, RowsGo DEF IInv, EndedWereMinted, RowsAreMinted
<1> QED BY <1>3, <1>4

\* A new token is none of those that were ended.
LEMMA LogInKeeps ==
    ASSUME IInv, NEW c \in Clients, LogInVerify(c) \/ LogInMint(c) PROVE IInv'
<1>1. CASE LogInVerify(c)
  <2>1. keepRows /\ (Done(c) \/ Go(c, "mint", task[c]))
    BY <1>1 DEF LogInVerify
  <2>2. Hand(task[c], minted) /\ "mint" \notin WithToken
    BY DEF IInv, HandsFit, WithToken
  <2> QED BY <2>1, <2>2, HandlersKeep
<1>2. CASE LogInMint(c)
  <2> DEFINE h == [task[c] EXCEPT !.now = now]
             row == [user |-> task[c].name, expires |-> now + Lifetime, pass |-> task[c].pass]
  <2>1. /\ minted < MaxSignIns /\ minted' = minted + 1 /\ ended' = ended
        /\ sessions' = [sessions EXCEPT ![minted'] = row] /\ Go(c, "purge", h)
    BY <1>2 DEF LogInMint
  <2> HIDE DEF row
  <2>2. minted \in Nat /\ minted' \in Nat /\ minted <= minted' /\ minted' \in Tokens
    BY <2>1, MintedIsNat, AccountBounds DEF Tokens
  <2>3. Hand(h, minted)
    BY DEF IInv, HandsFit, Hand
  <2>4. Hand(h, minted') /\ "purge" \notin WithToken
    BY <2>2, <2>3, HandLasts DEF WithToken
  <2> HIDE DEF h
  <2>5. HandsFit'
    BY <2>1, <2>2, <2>4, GoFits DEF IInv
  <2>6. RowsAreMinted'
    BY <2>1, <2>2, AccountBounds DEF IInv, RowsAreMinted, Tokens
  <2>7. EndedWereMinted' /\ minted' \notin ended
    BY <2>1, <2>2 DEF IInv, EndedWereMinted
  <2>8. EndedStaysEnded'
    BY <2>1, <2>2, <2>7, AccountBounds DEF IInv, EndedStaysEnded, EndedWereMinted, RowsAreMinted, Tokens
  <2> QED BY <2>5, <2>6, <2>7, <2>8 DEF IInv
<1> QED BY <1>1, <1>2

-----------------------------------------------------------------------------
(* The world around, and the theorem.                                      *)

LEMMA WorldKeeps ==
    ASSUME IInv, Tick \/ EditByHand \/ Restart \/ \E c \in Clients : Fail(c)
    PROVE  IInv'
<1>1. keepRows /\ minted' = minted
  BY DEF Tick, EditByHand, Restart, Fail, keepRows
<1>2. CASE Tick \/ EditByHand
  <2>1. UNCHANGED task
    BY <1>2 DEF Tick, EditByHand
  <2> QED BY <1>1, <2>1, RowsKeep DEF IInv, HandsFit
<1>3. CASE Restart
  <2>1. task' = [c \in Clients |-> Rest]
    BY <1>3 DEF Restart
  <2>2. HandsFit'
    BY <1>1, <2>1, MintedIsNat, RestFits DEF HandsFit
  <2> QED BY <1>1, <2>2, RowsKeep
<1>4. CASE \E c \in Clients : Fail(c)
  BY <1>1, <1>4, HandlersKeep DEF Fail
<1> QED BY <1>2, <1>3, <1>4

LEMMA StepKeeps == ASSUME IInv, [Next]_accountVars PROVE IInv'
<1>1. CASE UNCHANGED accountVars
  BY <1>1 DEF accountVars, accountGhosts, IInv, HandsFit, RowsAreMinted, EndedWereMinted,
              EndedStaysEnded
<1>2. CASE Tick \/ EditByHand \/ Restart
  BY <1>2, WorldKeeps
<1>3. ASSUME NEW c \in Clients, Step(c) PROVE IInv'
  BY <1>3, AskKeeps, GateKeeps, LookUpKeeps, FindAccountKeeps, RenewKeeps, CreateKeeps, PatchKeeps,
     DeleteKeeps, RevokeKeeps, LogInKeeps, PurgeKeeps, LogOutKeeps, NotesKeep, WorldKeeps
     DEF Step
<1> QED BY <1>1, <1>2, <1>3 DEF Next

LEMMA InitHolds == ASSUME Init PROVE IInv
<1>1. PICK n \in 0..MaxSignIns : \E holder \in [1..n -> There] :
        /\ minted = n
        /\ sessions = [t \in Tokens |-> IF t > n THEN None ELSE
              [user |-> holder[t], expires |-> Lifetime, pass |-> accounts[holder[t]].pass]]
  BY DEF Init
<1>2. minted = n /\ minted \in Nat
  BY <1>1, AccountBounds
<1>3. HandsFit
  BY <1>2, RestFits DEF Init, HandsFit
<1>4. RowsAreMinted
  BY <1>1, <1>2, AccountBounds DEF RowsAreMinted, Tokens
<1> QED BY <1>3, <1>4 DEF Init, IInv, EndedWereMinted, EndedStaysEnded

\* A session that was signed out, or ended by a new password or the end of its
\* account, is never honoured again (index/sessions.rs renew_session,
\* revoke_sessions), for any number of clients, accounts and sign-ins, renewals
\* that were under way, failures, restarts and files written by hand.
THEOREM EndedSessionsStayEnded == Spec => []EndedStaysEnded
<1>1. Init => IInv
  BY InitHolds
<1>2. IInv /\ [Next]_accountVars => IInv'
  BY StepKeeps
<1>3. IInv => EndedStaysEnded
  BY DEF IInv
<1> QED BY <1>1, <1>2, <1>3, PTL DEF Spec

-----------------------------------------------------------------------------
(* Somebody administers the wiki.                                          *)
(*                                                                         *)
(* Between the look at the other owners and the write there are awaits, so *)
(* what keeps speaks of requests half way: what one has read is a file,    *)
(* where it needs another owner it saw one, and where it makes an account  *)
(* that is not the first one, there is one already.                        *)

Excused == raced \/ edited

Creating == {"create check", "create write"}
Changing == {"patch check", "patch write", "delete check", "delete file"}

\* What a request asks for and has read, and what of it was looked at.
Look(h) ==
    /\ {"at", "op", "name", "role", "pass", "seen", "others", "boot"} \subseteq DOMAIN h
    /\ h.op \in Ops
    /\ h.at \notin {"rest", "adopt", "adopting"} =>
         h.name \in Names /\ h.role \in Roles \cup {None} /\ h.pass \in Passwords \cup {None}
    /\ h.at \in Creating => h.role \in Roles /\ (h.boot => h.role = "owner")
    /\ h.at \in Changing => h.seen \in Files
    /\ h.at = "patch write" /\ Demotes(h) => h.others # {}
    /\ h.at = "delete file" /\ h.seen.role = "owner" => h.others # {}

\* An account that is not the first one is not made in a wiki without any.
Second(h) == h.at \in Creating /\ ~h.boot => There # {} \/ Excused

LooksFit == /\ DOMAIN task = Clients
            /\ \A c \in Clients : Look(task[c])
SecondsFit == \A c \in Clients : Second(task[c])

AInv == LooksFit /\ SecondsFit /\ DOMAIN accounts = Names /\ SomebodyAdministers

LEMMA RestLooks == Look(Rest) /\ Second(Rest)
BY DEF Look, Second, Rest, Ops, Creating, Changing

\* Where a request goes with a hand that looks right there.
LEMMA GoLooks ==
    ASSUME LooksFit, NEW c \in Clients, NEW where, NEW h, Look([h EXCEPT !.at = where]),
           Go(c, where, h)
    PROVE  LooksFit'
<1>1. DOMAIN task' = Clients
  BY DEF LooksFit, Go
<1>2. ASSUME NEW d \in Clients PROVE Look(task'[d])
  BY DEF LooksFit, Go
<1> QED BY <1>1, <1>2 DEF LooksFit, Look, Demotes

LEMMA DoneLooks ==
    ASSUME LooksFit, NEW c \in Clients, Done(c) PROVE LooksFit'
<1>1. DOMAIN task' = Clients
  BY DEF LooksFit, Done
<1>2. ASSUME NEW d \in Clients PROVE Look(task'[d])
  BY RestLooks DEF LooksFit, Done
<1> QED BY <1>1, <1>2 DEF LooksFit, Look, Demotes

\* Steps that leave the accounts alone and lead to no creation of a second one.
LEMMA FilesKeep ==
    ASSUME AInv, keepFiles, edited' = edited, LooksFit', SecondsFit'
    PROVE  AInv'
BY DEF AInv, keepFiles, SomebodyAdministers, There, Owners

\* A step of one request keeps what the others count on, where accounts stay.
LEMMA OthersCount ==
    ASSUME AInv, keepFiles, edited' = edited, NEW c \in Clients,
           \/ Done(c)
           \/ \E where, h : Go(c, where, h) /\ (Second([h EXCEPT !.at = where]))
    PROVE  SecondsFit'
<1>1. There' = There /\ Excused' = Excused
  BY DEF keepFiles, There, Excused
<1>2. ASSUME NEW d \in Clients PROVE Second(task'[d])
  <2>1. CASE d # c
    BY <2>1 DEF AInv, LooksFit, SecondsFit, Go, Done
  <2>2. CASE d = c /\ Done(c)
    BY <2>2, RestLooks DEF AInv, LooksFit, Done
  <2>3. CASE d = c /\ \E where, h : Go(c, where, h) /\ Second([h EXCEPT !.at = where])
    BY <2>3 DEF AInv, LooksFit, Go
  <2> QED BY <2>1, <2>2, <2>3
<1> QED BY <1>1, <1>2 DEF SecondsFit, Second

LEMMA RequestKeeps ==
    ASSUME AInv, keepFiles, edited' = edited, NEW c \in Clients,
           \/ Done(c)
           \/ \E where, h : /\ Go(c, where, h)
                            /\ Look([h EXCEPT !.at = where]) /\ Second([h EXCEPT !.at = where])
    PROVE  AInv'
<1>1. LooksFit'
  BY GoLooks, DoneLooks DEF AInv
<1>2. SecondsFit'
  BY OthersCount
<1> QED BY <1>1, <1>2, FilesKeep

\* A request the gate lets through is about to begin.
LEMMA BeginsFit ==
    ASSUME AInv, NEW c \in Clients, NEW viewer, task[c].at \notin {"rest", "adopt", "adopting"}
    PROVE  LET h == [[task[c] EXCEPT !.viewer = viewer] EXCEPT !.at = task[c].op]
           IN Look(h) /\ Second(h)
BY DEF AInv, LooksFit, Look, Second, Demotes, Ops, Creating, Changing

LEMMA AdmitBegins ==
    ASSUME AInv, keepFiles, edited' = edited, NEW c \in Clients, AdmitNobody(c) \/ \E v : Admit(c, v),
           task[c].at \notin {"rest", "adopt", "adopting"}
    PROVE  AInv'
<1>1. CASE Done(c)
  BY <1>1, RequestKeeps
<1>2. ASSUME NEW v, Admit(c, v) PROVE AInv'
  <2>1. Go(c, task[c].op, [task[c] EXCEPT !.viewer = v])
    BY <1>2 DEF Admit
  <2>2. LET h == [[task[c] EXCEPT !.viewer = v] EXCEPT !.at = task[c].op]
        IN Look(h) /\ Second(h)
    BY BeginsFit
  <2> QED BY <2>1, <2>2, RequestKeeps
<1> QED BY <1>1, <1>2 DEF AdmitNobody

\* The gate decides nothing about accounts.
LEMMA GateDecidesNothing ==
    ASSUME AInv, NEW c \in Clients,
           Ask(c) \/ Gate(c) \/ LookUpSession(c) \/ FindAccount(c) \/ Renew(c)
    PROVE  AInv'
<1>1. keepFiles /\ edited' = edited
  BY DEF Ask, Gate, LookUpSession, FindAccount, Renew, keepRest
<1>2. CASE Ask(c)
  <2>1. PICK what \in Asked, token \in 1..minted \cup {None} :
          Go(c, "gate", [Rest EXCEPT !.op = what.op, !.name = what.name, !.role = what.role,
                                     !.pass = what.pass, !.token = token, !.now = now])
    BY <1>2 DEF Ask
  <2> DEFINE h == [Rest EXCEPT !.op = what.op, !.name = what.name, !.role = what.role,
                               !.pass = what.pass, !.token = token, !.now = now]
  <2>2. /\ what.op \in Ops /\ what.name \in Names
        /\ what.role \in Roles \cup {None} /\ what.pass \in Passwords \cup {None}
    BY AccountAsked DEF Ops
  <2>3. Look([h EXCEPT !.at = "gate"]) /\ Second([h EXCEPT !.at = "gate"])
    BY <2>2 DEF Rest, Look, Second, Creating, Changing
  <2>4. Go(c, "gate", h)
    BY <2>1
  <2> HIDE DEF h
  <2> QED BY <1>1, <2>3, <2>4, RequestKeeps
<1>3. CASE Gate(c)
  <2>1. task[c].at = "gate"
    BY <1>3 DEF Gate, At
  <2>2. AdmitNobody(c) \/ (\E v : Admit(c, v)) \/ Go(c, "session", task[c])
    BY <1>3 DEF Gate
  <2>3. Look([task[c] EXCEPT !.at = "session"]) /\ Second([task[c] EXCEPT !.at = "session"])
    BY <2>1 DEF AInv, LooksFit, Look, Second, Demotes, Creating, Changing
  <2> QED BY <1>1, <2>1, <2>2, <2>3, AdmitBegins, RequestKeeps
<1>4. CASE LookUpSession(c)
  <2> DEFINE h == [task[c] EXCEPT !.seen = sessions[task[c].token]]
  <2>1. task[c].at = "session"
    BY <1>4 DEF LookUpSession, At
  <2>2. AdmitNobody(c) \/ Go(c, "account", h)
    BY <1>4 DEF LookUpSession
  <2>3. Look([h EXCEPT !.at = "account"]) /\ Second([h EXCEPT !.at = "account"])
    BY <2>1 DEF AInv, LooksFit, Look, Second, Demotes, Creating, Changing
  <2> HIDE DEF h
  <2> QED BY <1>1, <2>1, <2>2, <2>3, AdmitBegins, RequestKeeps
<1>5. CASE FindAccount(c)
  <2> DEFINE h(v) == [task[c] EXCEPT !.viewer = v]
  <2>1. task[c].at = "account"
    BY <1>5 DEF FindAccount, At
  <2>2. \/ AdmitNobody(c) \/ Done(c)
        \/ \E v : Admit(c, v) \/ Go(c, "renew", h(v))
    BY <1>5 DEF FindAccount
  <2>3. \A v : Look([h(v) EXCEPT !.at = "renew"]) /\ Second([h(v) EXCEPT !.at = "renew"])
    BY <2>1 DEF AInv, LooksFit, Look, Second, Demotes, Creating, Changing
  <2> HIDE DEF h
  <2> QED BY <1>1, <2>1, <2>2, <2>3, AdmitBegins, RequestKeeps
<1>6. CASE Renew(c)
  <2>1. task[c].at = "renew" /\ Go(c, task[c].op, task[c])
    BY <1>6 DEF Renew, At
  <2>2. Look([task[c] EXCEPT !.at = task[c].op]) /\ Second([task[c] EXCEPT !.at = task[c].op])
    BY <2>1 DEF AInv, LooksFit, Look, Second, Demotes, Ops, Creating, Changing
  <2> QED BY <1>1, <2>1, <2>2, RequestKeeps
<1> QED BY <1>2, <1>3, <1>4, <1>5, <1>6

\* Signing in and out, the notes, and what goes wrong: accounts stay.
LEMMA RestDecidesNothing ==
    ASSUME AInv, NEW c \in Clients,
           \/ Revoke(c) \/ LogInVerify(c) \/ LogInMint(c) \/ Purge(c) \/ LogOut(c)
           \/ WriteNote(c) \/ AdoptLook(c) \/ Adopt(c) \/ Fail(c)
    PROVE  AInv'
<1>1. keepFiles /\ edited' = edited
  BY DEF Revoke, LogInVerify, LogInMint, Purge, LogOut, WriteNote, AdoptLook, Adopt, Fail, keepRest
<1>2. CASE Done(c)
  BY <1>1, <1>2, RequestKeeps
<1>3. CASE LogInVerify(c) /\ ~Done(c)
  <2>1. task[c].at = "login" /\ Go(c, "mint", task[c])
    BY <1>3 DEF LogInVerify, At
  <2>2. Look([task[c] EXCEPT !.at = "mint"]) /\ Second([task[c] EXCEPT !.at = "mint"])
    BY <2>1 DEF AInv, LooksFit, Look, Second, Demotes, Creating, Changing
  <2> QED BY <1>1, <2>1, <2>2, RequestKeeps
<1>4. CASE LogInMint(c)
  <2> DEFINE h == [task[c] EXCEPT !.now = now]
  <2>1. task[c].at = "mint" /\ Go(c, "purge", h)
    BY <1>4 DEF LogInMint, At
  <2>2. Look([h EXCEPT !.at = "purge"]) /\ Second([h EXCEPT !.at = "purge"])
    BY <2>1 DEF AInv, LooksFit, Look, Second, Demotes, Creating, Changing
  <2> HIDE DEF h
  <2> QED BY <1>1, <2>1, <2>2, RequestKeeps
<1>5. CASE AdoptLook(c) /\ ~Done(c)
  <2> DEFINE h == [task[c] EXCEPT !.todo = Unowned, !.name = Heir(c)]
  <2>1. Go(c, "adopting", h)
    BY <1>5 DEF AdoptLook
  <2>2. Look([h EXCEPT !.at = "adopting"]) /\ Second([h EXCEPT !.at = "adopting"])
    BY DEF AInv, LooksFit, Look, Second, Demotes, Creating, Changing
  <2> HIDE DEF h
  <2> QED BY <1>1, <2>1, <2>2, RequestKeeps
<1>6. CASE Adopt(c) /\ ~Done(c)
  <2> DEFINE h(r) == [task[c] EXCEPT !.todo = @ \ {r}]
  <2>1. \E r : Go(c, "adopting", h(r))
    BY <1>6 DEF Adopt
  <2>2. \A r : Look([h(r) EXCEPT !.at = "adopting"]) /\ Second([h(r) EXCEPT !.at = "adopting"])
    BY DEF AInv, LooksFit, Look, Second, Demotes, Creating, Changing
  <2> HIDE DEF h
  <2> QED BY <1>1, <2>1, <2>2, RequestKeeps
<1> QED BY <1>2, <1>3, <1>4, <1>5, <1>6 DEF Revoke, Purge, LogOut, WriteNote, Fail

-----------------------------------------------------------------------------
(* What the handlers of accounts look at.                                  *)

\* Without an excuse, an account that is there means an owner that is there.
LEMMA OwnerThere == ASSUME AInv, ~Excused, There # {} PROVE Owners # {}
BY DEF AInv, SomebodyAdministers, Excused

LEMMA LooksKeep ==
    ASSUME AInv, NEW c \in Clients,
           \/ CreateLook(c) \/ CreateCheck(c) \/ PatchRead(c) \/ PatchCheck(c)
           \/ DeleteRead(c) \/ DeleteCheck(c)
    PROVE  AInv'
<1> DEFINE seen(file)    == [task[c] EXCEPT !.seen = file]
           among(others) == [task[c] EXCEPT !.others = others]
<1>1. keepFiles /\ edited' = edited
  BY DEF CreateLook, CreateCheck, PatchRead, PatchCheck, DeleteRead, DeleteCheck, keepRest
<1>2. Look(task[c]) /\ Second(task[c])
  BY DEF AInv, LooksFit, SecondsFit
<1>3. CASE Done(c)
  BY <1>1, <1>3, RequestKeeps
<1>4. CASE CreateLook(c) /\ ~Done(c)
  <2> DEFINE h == [task[c] EXCEPT !.boot = (There = {}), !.role = NewRole(There = {}, @)]
  <2>1. task[c].at = "create" /\ Go(c, "create check", h)
    BY <1>4 DEF CreateLook, At
  <2>2. NewRole(There = {}, task[c].role) \in Roles /\ (There = {} => h.role = "owner")
    BY <1>2, <2>1 DEF Look, NewRole, Roles
  <2>3. Look([h EXCEPT !.at = "create check"])
    BY <1>2, <2>1, <2>2 DEF Look, Demotes, Creating, Changing
  <2>4. Second([h EXCEPT !.at = "create check"])
    BY <1>2 DEF Look, Second
  <2> HIDE DEF h
  <2> QED BY <1>1, <2>1, <2>3, <2>4, RequestKeeps
<1>5. CASE CreateCheck(c) /\ ~Done(c)
  <2>1. task[c].at = "create check" /\ Go(c, "create write", task[c])
    BY <1>5 DEF CreateCheck, At
  <2>2. Look([task[c] EXCEPT !.at = "create write"]) /\ Second([task[c] EXCEPT !.at = "create write"])
    BY <1>2, <2>1 DEF Look, Second, Demotes, Creating, Changing
  <2> QED BY <1>1, <2>1, <2>2, RequestKeeps
<1>6. CASE PatchRead(c) /\ ~Done(c)
  <2> DEFINE h == seen(accounts[task[c].name])
  <2>1. /\ task[c].at = "patch" /\ accounts[task[c].name] \in Files
        /\ Go(c, "patch check", h)
    BY <1>6 DEF PatchRead, At, IsAccount
  <2>2. Look([h EXCEPT !.at = "patch check"]) /\ Second([h EXCEPT !.at = "patch check"])
    BY <1>2, <2>1 DEF Look, Second, Creating, Changing
  <2> HIDE DEF h
  <2> QED BY <1>1, <2>1, <2>2, RequestKeeps
<1>7. CASE PatchCheck(c) /\ ~Done(c)
  <2> DEFINE h == among(Owners \ {task[c].name})
  <2>1. /\ task[c].at = "patch check" /\ Go(c, "patch write", h)
        /\ Demotes(task[c]) => Owners \ {task[c].name} # {}
    BY <1>7 DEF PatchCheck, At, OnlyOwner
  <2>2. Look([h EXCEPT !.at = "patch write"]) /\ Second([h EXCEPT !.at = "patch write"])
    BY <1>2, <2>1 DEF Look, Second, Demotes, Creating, Changing
  <2> HIDE DEF h
  <2> QED BY <1>1, <2>1, <2>2, RequestKeeps
<1>8. CASE DeleteRead(c) /\ ~Done(c)
  <2> DEFINE h == seen(accounts[task[c].name])
  <2>1. /\ task[c].at = "delete" /\ accounts[task[c].name] \in Files
        /\ Go(c, "delete check", h)
    BY <1>8 DEF DeleteRead, At, IsAccount
  <2>2. Look([h EXCEPT !.at = "delete check"]) /\ Second([h EXCEPT !.at = "delete check"])
    BY <1>2, <2>1 DEF Look, Second, Creating, Changing
  <2> HIDE DEF h
  <2> QED BY <1>1, <2>1, <2>2, RequestKeeps
<1>9. CASE DeleteCheck(c) /\ ~Done(c)
  <2> DEFINE h == among(Owners \ {task[c].name})
  <2>1. /\ task[c].at = "delete check" /\ Go(c, "delete file", h)
        /\ task[c].seen.role = "owner" => Owners \ {task[c].name} # {}
    BY <1>9 DEF DeleteCheck, At, OnlyOwner
  <2>2. Look([h EXCEPT !.at = "delete file"]) /\ Second([h EXCEPT !.at = "delete file"])
    BY <1>2, <2>1 DEF Look, Second, Creating, Changing
  <2> HIDE DEF h
  <2> QED BY <1>1, <2>1, <2>2, RequestKeeps
<1> QED BY <1>3, <1>4, <1>5, <1>6, <1>7, <1>8, <1>9

-----------------------------------------------------------------------------
(* What they write.                                                        *)

\* A write by one request, where there is somebody after it or an excuse, and
\* the wiki does not empty under those that make a second account.
LEMMA WriteKeeps ==
    ASSUME AInv, LooksFit', NEW c \in Clients, task'[c].at \notin Creating,
           \A d \in Clients : d # c => task'[d] = task[d],
           DOMAIN accounts' = Names, SomebodyAdministers',
           There # {} => There' # {} \/ Excused', Excused => Excused'
    PROVE  AInv'
<1>1. ASSUME NEW d \in Clients PROVE Second(task[d])'
  BY DEF AInv, SecondsFit, Second
<1> QED BY <1>1 DEF AInv, SecondsFit

\* A request that has written, and is over or goes on to what follows.
LEMMA HasWritten ==
    ASSUME AInv, NEW c \in Clients, NEW where, where \notin Creating,
           Done(c) \/ Go(c, where, task[c])
    PROVE  task'[c].at \notin Creating
<1>1. CASE Done(c)
  <2>1. task'[c] = Rest /\ Rest.at = "rest"
    BY <1>1 DEF AInv, LooksFit, Done, Rest
  <2> QED BY <2>1 DEF Creating
<1>2. CASE Go(c, where, task[c])
  BY <1>2 DEF AInv, LooksFit, Look, Go
<1> QED BY <1>1, <1>2

LEMMA CreateWriteKeeps == ASSUME AInv, NEW c \in Clients, CreateWrite(c) PROVE AInv'
<1> DEFINE t == task[c]
           file == [role |-> t.role, pass |-> t.pass]
<1>1. /\ t.at = "create write" /\ accounts' = [accounts EXCEPT ![t.name] = file]
      /\ raced' = (raced \/ accounts[t.name] # None) /\ edited' = edited
      /\ Done(c) \/ Go(c, "adopt", t)
  BY DEF CreateWrite, At, keepRest
<1>2. /\ t.name \in Names /\ file \in Files /\ (t.boot => t.role = "owner")
      /\ ~t.boot => There # {} \/ Excused
  BY <1>1 DEF AInv, LooksFit, SecondsFit, Look, Second, Files, Creating
<1>3. LooksFit' /\ task'[c].at \notin Creating /\ \A d \in Clients : d # c => task'[d] = task[d]
  <2>1. Look([t EXCEPT !.at = "adopt"])
    BY DEF AInv, LooksFit, Look, Demotes, Creating, Changing
  <2>2. task'[c].at \notin Creating
    <3>1. "adopt" \notin Creating
      BY DEF Creating
    <3> QED BY <1>1, <3>1, HasWritten
  <2> QED BY <1>1, <2>1, <2>2, GoLooks, DoneLooks DEF AInv, LooksFit, Done, Go
<1>4. CASE raced' \/ edited'
  BY <1>1, <1>3, <1>4, WriteKeeps DEF AInv, SomebodyAdministers, Excused
<1>5. CASE ~raced' /\ ~edited'
  <2>1. accounts[t.name] = None /\ ~Excused
    BY <1>1, <1>5 DEF Excused
  <2>2. Owners \subseteq Owners' /\ There \subseteq There'
    BY <1>1, <1>2, <2>1, AccountNone DEF AInv, Owners, There, IsAccount
  <2>3. t.boot => t.name \in Owners'
    BY <1>1, <1>2, AccountNone DEF AInv, Owners, There, IsAccount
  <2>4. Owners' # {}
    BY <1>2, <2>1, <2>2, <2>3, OwnerThere
  <2> QED BY <1>1, <1>3, <2>1, <2>2, <2>4, WriteKeeps DEF AInv, SomebodyAdministers
<1> QED BY <1>4, <1>5

LEMMA PatchWriteKeeps == ASSUME AInv, NEW c \in Clients, PatchWrite(c) PROVE AInv'
<1> DEFINE t == task[c]
           file == [role |-> IF t.role = None THEN t.seen.role ELSE t.role,
                    pass |-> IF t.pass = None THEN t.seen.pass ELSE t.pass]
<1>1. /\ t.at = "patch write" /\ accounts' = [accounts EXCEPT ![t.name] = file] /\ edited' = edited
      /\ raced' = (raced \/ accounts[t.name] # t.seen \/ (Demotes(t) /\ Owners \ {t.name} # t.others))
      /\ Done(c) \/ Go(c, "revoke", t)
  BY DEF PatchWrite, At, keepRest
<1>2. /\ t.name \in Names /\ t.seen \in Files /\ t.role \in Roles \cup {None}
      /\ t.pass \in Passwords \cup {None} /\ (Demotes(t) => t.others # {})
  BY <1>1 DEF AInv, LooksFit, Look, Changing
<1>3. file \in Files
  BY <1>2 DEF Files
<1>4. LooksFit' /\ task'[c].at \notin Creating /\ \A d \in Clients : d # c => task'[d] = task[d]
  <2>1. Look([t EXCEPT !.at = "revoke"])
    BY <1>1 DEF AInv, LooksFit, Look, Demotes, Creating, Changing
  <2>2. task'[c].at \notin Creating
    <3>1. "revoke" \notin Creating
      BY DEF Creating
    <3> QED BY <1>1, <3>1, HasWritten
  <2> QED BY <1>1, <2>1, <2>2, GoLooks, DoneLooks DEF AInv, LooksFit, Done, Go
<1>5. CASE raced' \/ edited'
  BY <1>1, <1>4, <1>5, WriteKeeps DEF AInv, SomebodyAdministers, Excused
<1>6. CASE ~raced' /\ ~edited'
  <2>1. accounts[t.name] = t.seen /\ ~Excused /\ (Demotes(t) => Owners \ {t.name} # {})
    BY <1>1, <1>2, <1>6 DEF Excused
  <2>2. There' = There /\ t.name \in There /\ Owners \ {t.name} \subseteq Owners'
    BY <1>1, <1>2, <1>3, <2>1, AccountNone DEF AInv, Owners, There, IsAccount
  <2>3. ~Demotes(t) /\ t.name \in Owners => t.name \in Owners'
    <3>1. ASSUME t.seen.role = "owner", ~Demotes(t) PROVE file.role = "owner"
      BY <3>1, <1>2 DEF Demotes, Roles
    <3> QED BY <1>1, <1>2, <1>3, <2>1, <2>2, <3>1 DEF AInv, Owners, There, IsAccount
  <2>4. Owners' # {}
    BY <2>1, <2>2, <2>3, OwnerThere
  <2> HIDE DEF file
  <2> QED BY <1>1, <1>4, <2>1, <2>2, <2>4, WriteKeeps DEF AInv, SomebodyAdministers
<1> QED BY <1>5, <1>6

LEMMA DeleteFileKeeps == ASSUME AInv, NEW c \in Clients, DeleteFile(c) PROVE AInv'
<1> DEFINE t == task[c]
<1>1. t.at = "delete file" /\ edited' = edited
  BY DEF DeleteFile, At, keepRest
<1>2. t.name \in Names /\ t.seen \in Files /\ (t.seen.role = "owner" => t.others # {})
  BY <1>1 DEF AInv, LooksFit, Look, Changing
<1>3. CASE accounts[t.name] = None
  BY <1>1, <1>3, RequestKeeps DEF DeleteFile
<1>4. CASE accounts[t.name] # None
  <2>1. /\ accounts' = [accounts EXCEPT ![t.name] = None]
        /\ raced' = (raced \/ accounts[t.name] # t.seen \/ Owners \ {t.name} # t.others)
        /\ Go(c, "revoke", t)
    BY <1>4 DEF DeleteFile
  <2>2. LooksFit' /\ task'[c].at \notin Creating /\ \A d \in Clients : d # c => task'[d] = task[d]
    <3>1. Look([t EXCEPT !.at = "revoke"])
      BY <1>1 DEF AInv, LooksFit, Look, Demotes, Creating, Changing
    <3>2. task'[c].at \notin Creating
      <4>1. "revoke" \notin Creating
        BY DEF Creating
      <4> QED BY <2>1, <4>1, HasWritten
    <3> QED BY <2>1, <3>1, <3>2, GoLooks DEF AInv, LooksFit, Go
  <2>3. CASE raced' \/ edited'
    BY <1>1, <2>1, <2>2, <2>3, WriteKeeps DEF AInv, SomebodyAdministers, Excused
  <2>4. CASE ~raced' /\ ~edited'
    <3>1. accounts[t.name] = t.seen /\ ~Excused /\ Owners \ {t.name} = t.others
      BY <1>1, <2>1, <2>4 DEF Excused
    <3>2. Owners \ {t.name} \subseteq Owners' /\ Owners' \subseteq There' /\ t.name \in There
      BY <1>2, <2>1, <3>1, <1>4 DEF AInv, Owners, There, IsAccount
    <3>3. Owners \ {t.name} # {}
      <4>1. CASE t.seen.role = "owner"
        BY <1>2, <3>1, <4>1
      <4>2. CASE t.seen.role # "owner"
        <5>1. t.name \notin Owners
          BY <3>1, <4>2 DEF Owners
        <5> QED BY <3>1, <3>2, <5>1, OwnerThere
      <4> QED BY <4>1, <4>2
    <3> QED BY <1>1, <2>1, <2>2, <3>1, <3>2, <3>3, WriteKeeps DEF AInv, SomebodyAdministers
  <2> QED BY <2>3, <2>4
<1> QED BY <1>3, <1>4

-----------------------------------------------------------------------------
(* The world around, and the theorem.                                      *)

LEMMA WorldDecides == ASSUME AInv, Tick \/ EditByHand \/ Restart PROVE AInv'
<1>1. CASE Tick
  BY <1>1, FilesKeep DEF Tick, AInv, LooksFit, SecondsFit, Second, keepFiles, There, Excused
<1>2. CASE EditByHand
  <2>1. UNCHANGED task /\ edited' /\ DOMAIN accounts' = Names
    BY <1>2 DEF EditByHand, AInv
  <2> QED BY <2>1 DEF AInv, LooksFit, SecondsFit, Second, Excused, SomebodyAdministers
<1>3. CASE Restart
  <2>1. task' = [c \in Clients |-> Rest] /\ keepFiles /\ edited' = edited
    BY <1>3 DEF Restart
  <2>2. LooksFit'
    BY <2>1, RestLooks DEF LooksFit
  <2>3. SecondsFit'
    BY <2>1, RestLooks DEF SecondsFit, Second, Rest, Creating
  <2> QED BY <2>1, <2>2, <2>3, FilesKeep
<1> QED BY <1>1, <1>2, <1>3

LEMMA ANext == ASSUME AInv, [Next]_accountVars PROVE AInv'
<1>1. CASE UNCHANGED accountVars
  BY <1>1 DEF accountVars, accountGhosts, AInv, LooksFit, SecondsFit, Second, Excused, There, Owners,
              SomebodyAdministers
<1>2. CASE Tick \/ EditByHand \/ Restart
  BY <1>2, WorldDecides
<1>3. ASSUME NEW c \in Clients, Step(c) PROVE AInv'
  BY <1>3, GateDecidesNothing, RestDecidesNothing, LooksKeep, CreateWriteKeeps, PatchWriteKeeps,
     DeleteFileKeeps DEF Step
<1> QED BY <1>1, <1>2, <1>3 DEF Next

\* A wiki may start with members only, somebody having written the files; the
\* constant FirstAccounts is told not to.
FirstAccountsHaveAnOwner ==
    \A first \in FirstAccounts :
        (\E n \in Names : first[n] # None) =>
            \E n \in Names : first[n] \in Files /\ first[n].role = "owner"

LEMMA AInitHolds == ASSUME Init, FirstAccountsHaveAnOwner PROVE AInv
<1>1. LooksFit /\ SecondsFit
  BY RestLooks DEF Init, LooksFit, SecondsFit, Second, Rest, Creating
<1>2. DOMAIN accounts = Names
  BY AccountStarts DEF Init
<1>3. There # {} => Owners # {}
  BY AccountNone DEF Init, FirstAccountsHaveAnOwner, There, Owners, IsAccount
<1> QED BY <1>1, <1>2, <1>3 DEF AInv, SomebodyAdministers

\* A wiki with accounts has an owner among them, so somebody may always add
\* one or change one (api/users.rs): the first account is made an owner, and
\* the last owner is neither demoted nor deleted, for any number of clients,
\* names and requests and wherever the server stops.  What it does not speak of
\* is what SomebodyAdministers excepts: files written by hand, and two requests
\* that change the same accounts at once.
THEOREM AnOwnerRemains ==
    ASSUME FirstAccountsHaveAnOwner PROVE Spec => []SomebodyAdministers
<1>1. Init => AInv
  BY AInitHolds
<1>2. AInv /\ [Next]_accountVars => AInv'
  BY ANext
<1>3. AInv => SomebodyAdministers
  BY DEF AInv
<1> QED BY <1>1, <1>2, <1>3, PTL DEF Spec

-----------------------------------------------------------------------------
(* Types.                                                                  *)
(*                                                                         *)
(* A request has in hand what the step it is at asks for: an account's     *)
(* file where it changes one, a session's row where it renews one, a       *)
(* password where it signs somebody in.                                    *)

Viewers == [kind : {"open", "account", "anonymous"}, name : Names \cup {None},
            role : Roles \cup {None}]
Places == Ops \cup {"rest", "gate", "session", "account", "renew", "create check", "create write",
                   "adopt", "adopting", "patch check", "patch write", "revoke",
                   "delete check", "delete file", "mint", "purge"}
Tasks == [at : Places, op : Ops, name : Names \cup {None}, role : Roles \cup {None},
          pass : Passwords \cup {None}, token : Tokens \cup {None}, now : 0..MaxNow,
          viewer : Viewers, seen : Files \cup Rows \cup {None}, others : SUBSET Names,
          boot : BOOLEAN, todo : SUBSET Notes]

\* Who it speaks for, if for somebody.
Known(viewer) ==
    viewer.kind = "account" => viewer.role \in Roles /\ viewer.name \in Names

TaskFits(t) ==
    /\ t.at # "rest" => t.name \in Names
    /\ Known(t.viewer)
    /\ t.op \in {"create", "login"} => t.pass \in Passwords
    /\ t.at \in {"login", "mint"} => t.op = "login"
    /\ t.at \in {"account", "renew"} => t.seen \in Rows
    /\ t.at \in WithToken => t.token \in Tokens
    /\ t.at \in Creating => t.role \in Roles
    /\ t.at \in Changing => t.seen \in Files

TasksTyped == task \in [Clients -> Tasks] /\ \A c \in Clients : TaskFits(task[c])

FilesTyped == accounts \in [Names -> Files \cup {None, Garbled}] /\ unrevoked \subseteq Names
RowsTyped == /\ sessions \in [Tokens -> Rows \cup {None}] /\ minted \in 0..MaxSignIns
             /\ used \in [Tokens -> 0..MaxNow \cup {None}] /\ ended \subseteq Tokens
NotesTyped == /\ owner \in [Notes -> Names \cup {None}] /\ noted \subseteq Notes
              /\ late \in [tokens : SUBSET Tokens, notes : SUBSET Notes]
TInv == TasksTyped /\ FilesTyped /\ RowsTyped /\ NotesTyped /\ now \in 0..MaxNow

LEMMA TypesAreTypes == TInv => TypeOK
BY DEF TInv, TypeOK, TasksTyped, FilesTyped, RowsTyped, NotesTyped, TaskFits, Known, Tasks,
       Viewers, Rows

LEMMA RestIsTyped == Rest \in Tasks /\ TaskFits(Rest)
<1>1. Nobody \in Viewers /\ Known(Nobody)
  BY DEF Nobody, Viewers, Known
<1>2. 0 \in 0..MaxNow
  BY AccountBounds
<1> QED BY <1>1, <1>2 DEF Rest, Tasks, TaskFits, Places, Ops, WithToken, Creating, Changing

\* A request goes where it fits.
LEMMA GoTyped ==
    ASSUME TasksTyped, NEW c \in Clients, NEW where \in Places, NEW h \in Tasks,
           TaskFits([h EXCEPT !.at = where]), Go(c, where, h)
    PROVE  /\ TasksTyped' /\ task'[c] = [h EXCEPT !.at = where]
           /\ \A d \in Clients \ {c} : task'[d] = task[d]
<1>1. [h EXCEPT !.at = where] \in Tasks
  BY DEF Tasks
<1>2. /\ task' \in [Clients -> Tasks] /\ task'[c] = [h EXCEPT !.at = where]
      /\ \A d \in Clients \ {c} : task'[d] = task[d]
  BY <1>1 DEF TasksTyped, Go
<1>3. \A d \in Clients : TaskFits(task'[d])
  BY <1>2 DEF TasksTyped
<1> QED BY <1>2, <1>3 DEF TasksTyped, TaskFits, Known

LEMMA DoneTyped ==
    ASSUME TasksTyped, NEW c \in Clients, Done(c)
    PROVE  /\ TasksTyped' /\ task'[c] = Rest
           /\ \A d \in Clients \ {c} : task'[d] = task[d]
<1>1. /\ task' \in [Clients -> Tasks] /\ task'[c] = Rest
      /\ \A d \in Clients \ {c} : task'[d] = task[d]
  BY RestIsTyped DEF TasksTyped, Done
<1>2. \A d \in Clients : TaskFits(task'[d])
  BY <1>1, RestIsTyped DEF TasksTyped
<1> QED BY <1>1, <1>2 DEF TasksTyped, TaskFits, Known

\* The gate lets a request through to what it asks for.
LEMMA AdmitTyped ==
    ASSUME TasksTyped, NEW c \in Clients, NEW viewer \in Viewers, Known(viewer),
           ~At(c, "rest"), Admit(c, viewer)
    PROVE  TasksTyped'
<1>1. /\ [task[c] EXCEPT !.viewer = viewer] \in Tasks /\ task[c].op \in Ops /\ TaskFits(task[c])
      /\ task[c] \in Tasks
  BY DEF TasksTyped, Tasks
<1>2. TaskFits([[task[c] EXCEPT !.viewer = viewer] EXCEPT !.at = task[c].op])
  BY <1>1 DEF TaskFits, Tasks, Ops, At, WithToken, Creating, Changing
<1>3. Go(c, task[c].op, [task[c] EXCEPT !.viewer = viewer])
  BY DEF Admit
<1> QED BY <1>1, <1>2, <1>3, GoTyped DEF Places

LEMMA AdmitNobodyTyped ==
    ASSUME TasksTyped, NEW c \in Clients, ~At(c, "rest"), AdmitNobody(c)
    PROVE  TasksTyped'
<1>1. Nobody \in Viewers /\ Known(Nobody)
  BY DEF Nobody, Viewers, Known
<1> QED BY <1>1, AdmitTyped, DoneTyped DEF AdmitNobody

\* What a step leaves alone keeps its types.
LEMMA RestKeepsTypes ==
    ASSUME TInv
    PROVE  /\ keepFiles /\ unrevoked' \subseteq Names => FilesTyped'
           /\ keepRows => RowsTyped'
           /\ keepNotes /\ late' = late => NotesTyped'
           /\ keepRest => now' \in 0..MaxNow
BY DEF TInv, FilesTyped, RowsTyped, NotesTyped, keepFiles, keepRows, keepNotes, keepRest

\* What a request's hand is, by name.
LEMMA InHand ==
    ASSUME TInv, NEW c \in Clients
    PROVE  /\ task[c] \in Tasks /\ TaskFits(task[c])
           /\ task[c].op \in Ops /\ task[c].name \in Names \cup {None}
           /\ task[c].now \in 0..MaxNow /\ task[c].viewer \in Viewers /\ Known(task[c].viewer)
           /\ task[c].pass \in Passwords \cup {None} /\ task[c].role \in Roles \cup {None}
           /\ task[c].todo \in SUBSET Notes /\ task[c].token \in Tokens \cup {None}
BY DEF TInv, TasksTyped, TaskFits, Tasks

LEMMA AskTyped == ASSUME TInv, NEW c \in Clients, Ask(c) PROVE TInv'
<1>1. PICK what \in Asked, token \in 1..minted \cup {None} :
        Go(c, "gate", [Rest EXCEPT !.op = what.op, !.name = what.name, !.role = what.role,
                                   !.pass = what.pass, !.token = token, !.now = now])
  BY DEF Ask
<1> DEFINE h == [Rest EXCEPT !.op = what.op, !.name = what.name, !.role = what.role,
                             !.pass = what.pass, !.token = token, !.now = now]
<1>2. token \in Tokens \cup {None} /\ now \in 0..MaxNow
  BY AccountBounds DEF TInv, RowsTyped, Tokens
<1>3. h \in Tasks
  BY <1>2, AccountAsked, RestIsTyped DEF Tasks, Ops
<1>4. TaskFits([h EXCEPT !.at = "gate"])
  BY <1>2, AccountAsked, RestIsTyped DEF TaskFits, Tasks, WithToken, Creating, Changing, Rest
<1>5. TasksTyped'
  BY <1>1, <1>3, <1>4, GoTyped DEF TInv, Places
<1>6. keepFiles /\ keepRows /\ keepNotes /\ UNCHANGED <<now, late, unrevoked>>
  BY DEF Ask
<1> QED BY <1>5, <1>6, RestKeepsTypes DEF TInv, FilesTyped

LEMMA GateTyped == ASSUME TInv, NEW c \in Clients, Gate(c) PROVE TInv'
<1>1. keepFiles /\ keepRows /\ keepNotes /\ keepRest /\ UNCHANGED <<late, unrevoked>> /\ At(c, "gate")
  BY DEF Gate
<1>2. ~At(c, "rest")
  BY <1>1 DEF At
<1>3. [Nobody EXCEPT !.kind = "open"] \in Viewers /\ Known([Nobody EXCEPT !.kind = "open"])
  BY DEF Nobody, Viewers, Known
<1>4. ASSUME task[c].token # None, Go(c, "session", task[c]) PROVE TasksTyped'
  <2>1. TaskFits([task[c] EXCEPT !.at = "session"])
    BY <1>1, <1>4, InHand DEF TaskFits, Tasks, WithToken, Creating, Changing, At
  <2> QED BY <1>4, <2>1, InHand, GoTyped DEF TInv, Places
<1>5. \/ Admit(c, [Nobody EXCEPT !.kind = "open"]) \/ AdmitNobody(c)
      \/ task[c].token # None /\ Go(c, "session", task[c])
  BY DEF Gate
<1>6. TasksTyped'
  BY <1>2, <1>3, <1>4, <1>5, AdmitTyped, AdmitNobodyTyped DEF TInv
<1> QED BY <1>1, <1>6, RestKeepsTypes DEF TInv, FilesTyped

LEMMA LookUpTyped == ASSUME TInv, NEW c \in Clients, LookUpSession(c) PROVE TInv'
<1> DEFINE t == task[c]
<1>1. keepFiles /\ keepNotes /\ keepRest /\ UNCHANGED <<minted, used, ended, late, unrevoked>>
      /\ At(c, "session")
  BY DEF LookUpSession
<1>2. ~At(c, "rest") /\ t.token \in Tokens /\ t \in Tasks /\ TaskFits(t)
  BY <1>1, InHand DEF At, TaskFits, WithToken
<1>3. RowsTyped'
  BY <1>1, <1>2 DEF LookUpSession, TInv, RowsTyped
<1>4. ASSUME sessions[t.token] # None, Go(c, "account", [t EXCEPT !.seen = sessions[t.token]])
      PROVE  TasksTyped'
  <2>1. sessions[t.token] \in Rows
    BY <1>2, <1>4 DEF TInv, RowsTyped
  <2>2. [t EXCEPT !.seen = sessions[t.token]] \in Tasks
    BY <1>2, <2>1 DEF Tasks
  <2>3. TaskFits([[t EXCEPT !.seen = sessions[t.token]] EXCEPT !.at = "account"])
    BY <1>1, <1>2, <2>1 DEF TaskFits, Tasks, WithToken, Creating, Changing, At
  <2> QED BY <1>4, <2>2, <2>3, GoTyped DEF TInv, Places
<1>5. TasksTyped'
  BY <1>2, <1>4, AdmitNobodyTyped DEF LookUpSession, TInv
<1> QED BY <1>1, <1>3, <1>5, RestKeepsTypes DEF TInv, FilesTyped

LEMMA FindAccountTyped == ASSUME TInv, NEW c \in Clients, FindAccount(c) PROVE TInv'
<1> DEFINE t == task[c]
           row == t.seen
           file == accounts[row.user]
           viewer == [kind |-> "account", name |-> row.user, role |-> file.role]
<1>1. keepFiles /\ keepNotes /\ keepRest /\ UNCHANGED <<minted, late, unrevoked>> /\ At(c, "account")
  BY DEF FindAccount
<1>2. /\ ~At(c, "rest") /\ t.token \in Tokens /\ t \in Tasks /\ TaskFits(t) /\ row \in Rows
      /\ t.now \in 0..MaxNow
  BY <1>1, InHand DEF At, TaskFits, WithToken
<1>3. RowsTyped'
  BY <1>1, <1>2 DEF FindAccount, TInv, RowsTyped
<1>4. ASSUME IsAccount(file) PROVE viewer \in Viewers /\ Known(viewer)
  BY <1>2, <1>4 DEF IsAccount, Files, Rows, Viewers, Known
<1>5. ASSUME IsAccount(file), Go(c, "renew", [t EXCEPT !.viewer = viewer]) PROVE TasksTyped'
  <2>1. [t EXCEPT !.viewer = viewer] \in Tasks
    BY <1>2, <1>4, <1>5 DEF Tasks
  <2>2. TaskFits([[t EXCEPT !.viewer = viewer] EXCEPT !.at = "renew"])
    <3> HIDE DEF viewer
    <3> QED BY <1>1, <1>2, <1>4, <1>5 DEF TaskFits, Tasks, WithToken, Creating, Changing, At
  <2> QED BY <1>5, <2>1, <2>2, GoTyped DEF TInv, Places
<1>6. TasksTyped'
  <2>1. CASE AdmitNobody(c)
    BY <1>2, <2>1, AdmitNobodyTyped DEF TInv
  <2>2. CASE Done(c)
    BY <2>2, DoneTyped DEF TInv
  <2>3. CASE IsAccount(file) /\ Admit(c, viewer)
    BY <1>2, <1>4, <2>3, AdmitTyped DEF TInv
  <2>4. CASE IsAccount(file) /\ Go(c, "renew", [t EXCEPT !.viewer = viewer])
    BY <1>5, <2>4
  <2> QED BY <2>1, <2>2, <2>3, <2>4 DEF FindAccount
<1> QED BY <1>1, <1>3, <1>6, RestKeepsTypes DEF TInv, FilesTyped

LEMMA RenewTyped == ASSUME TInv, NEW c \in Clients, Renew(c) PROVE TInv'
<1> DEFINE t == task[c]
<1>1. /\ keepFiles /\ keepNotes /\ UNCHANGED <<now, minted, ended, late, unrevoked>> /\ At(c, "renew")
      /\ Go(c, t.op, t)
  BY DEF Renew
<1>2. /\ t.token \in Tokens /\ t \in Tasks /\ TaskFits(t) /\ t.now \in 0..MaxNow /\ t.op \in Ops
  BY <1>1, InHand DEF At, TaskFits, WithToken
<1>3. ASSUME NEW row \in Rows \cup {None} PROVE Renewed(row, t.seen, t.now) \in Rows \cup {None}
  <2>1. t.now + Lifetime \in 0..MaxNow + Lifetime
    BY <1>2, AccountBounds
  <2> QED BY <1>3, <2>1 DEF Renewed, Rows
<1>4. RowsTyped'
  BY <1>1, <1>2, <1>3 DEF Renew, TInv, RowsTyped
<1>5. TaskFits([t EXCEPT !.at = t.op])
  BY <1>1, <1>2 DEF TaskFits, Tasks, Ops, At, WithToken, Creating, Changing
<1>6. TasksTyped'
  BY <1>1, <1>2, <1>5, GoTyped DEF TInv, Places
<1> QED BY <1>1, <1>4, <1>6, RestKeepsTypes DEF TInv, FilesTyped
\* The handlers of accounts, which change files and no row and no note.
LEMMA CreateTyped ==
    ASSUME TInv, NEW c \in Clients, CreateLook(c) \/ CreateCheck(c) \/ CreateWrite(c)
    PROVE  TInv'
<1> DEFINE t == task[c]
<1>1. keepRows /\ keepNotes /\ keepRest /\ Quiet
  BY DEF CreateLook, CreateCheck, CreateWrite
<1>2. CASE CreateLook(c)
  <2> DEFINE h(boot) == [t EXCEPT !.boot = boot, !.role = NewRole(boot, t.role)]
  <2>1. /\ t \in Tasks /\ TaskFits(t) /\ t.at = "create" /\ t.role \in Roles \cup {None}
        /\ t.op \in Ops
    BY <1>2, InHand DEF CreateLook, At
  <2>2. Done(c) \/ \E boot \in BOOLEAN : Go(c, "create check", h(boot))
    BY <1>2 DEF CreateLook
  <2>3. ASSUME NEW boot \in BOOLEAN PROVE NewRole(boot, t.role) \in Roles
    BY <2>1 DEF NewRole, Roles
  <2>4. ASSUME NEW boot \in BOOLEAN
        PROVE  h(boot) \in Tasks /\ TaskFits([h(boot) EXCEPT !.at = "create check"])
    BY <2>1, <2>3 DEF Tasks, TaskFits, WithToken, Creating, Changing
  <2> HIDE DEF h
  <2>5. TasksTyped'
    BY <2>2, <2>4, GoTyped, DoneTyped DEF TInv, Places
  <2>6. keepFiles
    BY <1>2 DEF CreateLook
  <2> QED BY <1>1, <2>5, <2>6, RestKeepsTypes DEF TInv, FilesTyped, Quiet
<1>3. CASE CreateCheck(c)
  <2>1. t \in Tasks /\ TaskFits(t) /\ t.at = "create check"
    BY <1>3, InHand DEF CreateCheck, At
  <2>2. Done(c) \/ Go(c, "create write", t)
    BY <1>3 DEF CreateCheck
  <2>3. TaskFits([t EXCEPT !.at = "create write"])
    BY <2>1 DEF Tasks, TaskFits, WithToken, Creating, Changing
  <2>4. TasksTyped'
    BY <2>1, <2>2, <2>3, GoTyped, DoneTyped DEF TInv, Places
  <2>5. keepFiles
    BY <1>3 DEF CreateCheck
  <2> QED BY <1>1, <2>4, <2>5, RestKeepsTypes DEF TInv, FilesTyped, Quiet
<1>4. CASE CreateWrite(c)
  <2>1. /\ t \in Tasks /\ TaskFits(t) /\ t.at = "create write"
        /\ t.role \in Roles /\ t.name \in Names /\ t.pass \in Passwords \cup {None}
    BY <1>4, InHand DEF CreateWrite, At, TaskFits, Creating
  <2>2. Done(c) \/ Go(c, "adopt", t)
    BY <1>4 DEF CreateWrite
  <2>3. TaskFits([t EXCEPT !.at = "adopt"])
    BY <2>1 DEF Tasks, TaskFits, WithToken, Creating, Changing
  <2>4. TasksTyped'
    BY <2>1, <2>2, <2>3, GoTyped, DoneTyped DEF TInv, Places
  <2>5. [role |-> t.role, pass |-> t.pass] \in Files
    BY <2>1 DEF Files
  <2>6. FilesTyped'
    BY <1>1, <1>4, <2>1, <2>5 DEF CreateWrite, TInv, FilesTyped, Quiet
  <2> QED BY <1>1, <2>4, <2>6, RestKeepsTypes DEF TInv, Quiet
<1> QED BY <1>2, <1>3, <1>4

LEMMA PatchTyped ==
    ASSUME TInv, NEW c \in Clients, PatchRead(c) \/ PatchCheck(c) \/ PatchWrite(c)
    PROVE  TInv'
<1> DEFINE t == task[c]
<1>1. keepRows /\ keepNotes /\ keepRest /\ Quiet
  BY DEF PatchRead, PatchCheck, PatchWrite
<1>2. CASE PatchRead(c)
  <2> DEFINE h == [t EXCEPT !.seen = accounts[t.name]]
  <2>1. t \in Tasks /\ TaskFits(t) /\ t.at = "patch"
    BY <1>2, InHand DEF PatchRead, At
  <2>2. Done(c) \/ (IsAccount(accounts[t.name]) /\ Go(c, "patch check", h))
    BY <1>2 DEF PatchRead
  <2>3. ASSUME IsAccount(accounts[t.name])
        PROVE  h \in Tasks /\ TaskFits([h EXCEPT !.at = "patch check"])
    BY <2>1, <2>3 DEF Tasks, TaskFits, WithToken, Creating, Changing, IsAccount
  <2> HIDE DEF h
  <2>4. TasksTyped'
    BY <2>2, <2>3, GoTyped, DoneTyped DEF TInv, Places
  <2>5. keepFiles
    BY <1>2 DEF PatchRead
  <2> QED BY <1>1, <2>4, <2>5, RestKeepsTypes DEF TInv, FilesTyped, Quiet
<1>3. CASE PatchCheck(c)
  <2> DEFINE h == [t EXCEPT !.others = Owners \ {t.name}]
  <2>1. t \in Tasks /\ TaskFits(t) /\ t.at = "patch check"
    BY <1>3, InHand DEF PatchCheck, At
  <2>2. Done(c) \/ Go(c, "patch write", h)
    BY <1>3 DEF PatchCheck
  <2>3. h \in Tasks /\ TaskFits([h EXCEPT !.at = "patch write"])
    BY <2>1 DEF Tasks, TaskFits, WithToken, Creating, Changing, Owners, There
  <2> HIDE DEF h
  <2>4. TasksTyped'
    BY <2>2, <2>3, GoTyped, DoneTyped DEF TInv, Places
  <2>5. keepFiles
    BY <1>3 DEF PatchCheck
  <2> QED BY <1>1, <2>4, <2>5, RestKeepsTypes DEF TInv, FilesTyped, Quiet
<1>4. CASE PatchWrite(c)
  <2> DEFINE file == [role |-> IF t.role = None THEN t.seen.role ELSE t.role,
                      pass |-> IF t.pass = None THEN t.seen.pass ELSE t.pass]
  <2>1. /\ t \in Tasks /\ TaskFits(t) /\ t.at = "patch write" /\ t.seen \in Files
        /\ t.role \in Roles \cup {None} /\ t.name \in Names /\ t.pass \in Passwords \cup {None}
    BY <1>4, InHand DEF PatchWrite, At, TaskFits, Changing
  <2>2. Done(c) \/ Go(c, "revoke", t)
    BY <1>4 DEF PatchWrite
  <2>3. TaskFits([t EXCEPT !.at = "revoke"])
    BY <2>1 DEF Tasks, TaskFits, WithToken, Creating, Changing
  <2>4. TasksTyped'
    BY <2>1, <2>2, <2>3, GoTyped, DoneTyped DEF TInv, Places
  <2>5. file \in Files
    BY <2>1 DEF Files
  <2>6. FilesTyped'
    BY <1>1, <1>4, <2>1, <2>5 DEF PatchWrite, TInv, FilesTyped, Quiet
  <2> QED BY <1>1, <2>4, <2>6, RestKeepsTypes DEF TInv, Quiet
<1> QED BY <1>2, <1>3, <1>4

LEMMA DeleteTyped ==
    ASSUME TInv, NEW c \in Clients, DeleteRead(c) \/ DeleteCheck(c) \/ DeleteFile(c)
    PROVE  TInv'
<1> DEFINE t == task[c]
<1>1. keepRows /\ keepNotes /\ keepRest /\ Quiet
  BY DEF DeleteRead, DeleteCheck, DeleteFile
<1>2. CASE DeleteRead(c)
  <2> DEFINE h == [t EXCEPT !.seen = accounts[t.name]]
  <2>1. t \in Tasks /\ TaskFits(t) /\ t.at = "delete"
    BY <1>2, InHand DEF DeleteRead, At
  <2>2. Done(c) \/ (IsAccount(accounts[t.name]) /\ Go(c, "delete check", h))
    BY <1>2 DEF DeleteRead
  <2>3. ASSUME IsAccount(accounts[t.name])
        PROVE  h \in Tasks /\ TaskFits([h EXCEPT !.at = "delete check"])
    BY <2>1, <2>3 DEF Tasks, TaskFits, WithToken, Creating, Changing, IsAccount
  <2> HIDE DEF h
  <2>4. TasksTyped'
    BY <2>2, <2>3, GoTyped, DoneTyped DEF TInv, Places
  <2>5. keepFiles
    BY <1>2 DEF DeleteRead
  <2> QED BY <1>1, <2>4, <2>5, RestKeepsTypes DEF TInv, FilesTyped, Quiet
<1>3. CASE DeleteCheck(c)
  <2> DEFINE h == [t EXCEPT !.others = Owners \ {t.name}]
  <2>1. t \in Tasks /\ TaskFits(t) /\ t.at = "delete check"
    BY <1>3, InHand DEF DeleteCheck, At
  <2>2. Done(c) \/ Go(c, "delete file", h)
    BY <1>3 DEF DeleteCheck
  <2>3. h \in Tasks /\ TaskFits([h EXCEPT !.at = "delete file"])
    BY <2>1 DEF Tasks, TaskFits, WithToken, Creating, Changing, Owners, There
  <2> HIDE DEF h
  <2>4. TasksTyped'
    BY <2>2, <2>3, GoTyped, DoneTyped DEF TInv, Places
  <2>5. keepFiles
    BY <1>3 DEF DeleteCheck
  <2> QED BY <1>1, <2>4, <2>5, RestKeepsTypes DEF TInv, FilesTyped, Quiet
<1>4. CASE DeleteFile(c)
  <2>1. t \in Tasks /\ TaskFits(t) /\ t.at = "delete file" /\ t.name \in Names
    BY <1>4, InHand DEF DeleteFile, At, TaskFits
  <2>2. Done(c) \/ Go(c, "revoke", t)
    BY <1>4 DEF DeleteFile
  <2>3. TaskFits([t EXCEPT !.at = "revoke"])
    BY <2>1 DEF Tasks, TaskFits, WithToken, Creating, Changing
  <2>4. TasksTyped'
    BY <2>1, <2>2, <2>3, GoTyped, DoneTyped DEF TInv, Places
  <2>5. FilesTyped'
    BY <1>1, <1>4, <2>1 DEF DeleteFile, TInv, FilesTyped, Quiet, keepFiles
  <2> QED BY <1>1, <2>4, <2>5, RestKeepsTypes DEF TInv, Quiet
<1> QED BY <1>2, <1>3, <1>4

\* The steps that end with the request and take rows away, or none.
LEMMA RowsGoTyped ==
    ASSUME TInv, NEW c \in Clients, Revoke(c) \/ Purge(c) \/ LogOut(c) \/ Fail(c)
    PROVE  TInv'
<1>1. keepFiles /\ keepNotes /\ UNCHANGED <<now, late, minted, used>> /\ Done(c)
  BY DEF Revoke, Purge, LogOut, Fail, keepRest, Quiet, keepRows
<1>2. /\ task[c].at # "rest" => task[c].name \in Names
      /\ task[c].token \in Tokens \cup {None}
  BY InHand DEF TaskFits
<1>3. unrevoked' \subseteq Names
  BY <1>2 DEF Revoke, Purge, LogOut, Fail, Quiet, Interrupted, TInv, FilesTyped, At
<1>4. RowsTyped'
  <2>1. CASE Revoke(c)
    BY <1>1, <2>1 DEF Revoke, Revoked, TInv, RowsTyped
  <2>2. CASE Purge(c)
    BY <1>1, <2>2 DEF Purge, TInv, RowsTyped
  <2>3. CASE LogOut(c)
    BY <1>1, <1>2, <2>3 DEF LogOut, TInv, RowsTyped
  <2>4. CASE Fail(c)
    BY <2>4, RestKeepsTypes DEF Fail
  <2> QED BY <2>1, <2>2, <2>3, <2>4
<1>5. TasksTyped'
  BY <1>1, DoneTyped DEF TInv
<1> QED BY <1>1, <1>3, <1>4, <1>5, RestKeepsTypes DEF TInv

\* A sign-in is verified for an account, so its row is worth a password.
LEMMA LogInTyped ==
    ASSUME TInv, NEW c \in Clients, LogInVerify(c) \/ LogInMint(c)
    PROVE  TInv'
<1> DEFINE t == task[c]
<1>1. keepFiles /\ keepNotes /\ keepRest /\ unrevoked' = unrevoked
  BY DEF LogInVerify, LogInMint, Quiet
<1>2. CASE LogInVerify(c)
  <2>1. t \in Tasks /\ TaskFits(t) /\ t.at = "login"
    BY <1>2, InHand DEF LogInVerify, At
  <2>2. Done(c) \/ Go(c, "mint", t)
    BY <1>2 DEF LogInVerify
  <2>3. TaskFits([t EXCEPT !.at = "mint"])
    BY <2>1 DEF Tasks, TaskFits, WithToken, Creating, Changing
  <2>4. TasksTyped'
    BY <2>1, <2>2, <2>3, GoTyped, DoneTyped DEF TInv, Places
  <2>5. keepRows /\ late' = late
    BY <1>2 DEF LogInVerify, Quiet
  <2> QED BY <1>1, <2>4, <2>5, RestKeepsTypes DEF TInv, FilesTyped
<1>3. CASE LogInMint(c)
  <2> DEFINE n == minted + 1
             h == [t EXCEPT !.now = now]
             row == [user |-> t.name, expires |-> now + Lifetime, pass |-> t.pass]
  <2>1. /\ t \in Tasks /\ TaskFits(t) /\ t.at = "mint" /\ t.name \in Names /\ t.pass \in Passwords
        /\ now \in 0..MaxNow
    BY <1>3, InHand DEF LogInMint, At, TaskFits, TInv
  <2>2. /\ Go(c, "purge", h) /\ minted' = n /\ ended' = ended
        /\ sessions' = [sessions EXCEPT ![n] = row] /\ used' = [used EXCEPT ![n] = now]
        /\ late' = late \/ late' = [late EXCEPT !.tokens = @ \cup {n}]
    BY <1>3 DEF LogInMint
  <2>3. h \in Tasks /\ TaskFits([h EXCEPT !.at = "purge"])
    BY <2>1 DEF Tasks, TaskFits, WithToken, Creating, Changing
  <2>4. TasksTyped'
    <3> HIDE DEF h
    <3> QED BY <2>2, <2>3, GoTyped DEF TInv, Places
  <2>5. n \in Tokens /\ n \in 0..MaxSignIns
    BY <1>3, AccountBounds DEF LogInMint, TInv, RowsTyped, Tokens
  <2>6. row \in Rows
    BY <2>1, AccountBounds DEF Rows
  <2>7. RowsTyped'
    <3> HIDE DEF row, n
    <3> QED BY <2>1, <2>2, <2>5, <2>6 DEF TInv, RowsTyped
  <2>8. NotesTyped'
    <3> HIDE DEF n
    <3> QED BY <1>1, <2>2, <2>5 DEF TInv, NotesTyped, keepNotes
  <2> QED BY <1>1, <2>4, <2>7, <2>8, RestKeepsTypes DEF TInv, FilesTyped
<1> QED BY <1>2, <1>3

\* The only account there is.
LEMMA HeirIsThere ==
    ASSUME Cardinality(There) = 1
    PROVE  (CHOOSE n \in Names : n \in There) \in Names /\ There # {}
<1>1. There # {}
  BY FS_EmptySet
<1> QED BY <1>1 DEF There

LessNote == {ss \in Nat \X Nat : ss[1] < ss[2]}

\* There is a next note while there is room for one.
LEMMA LeastNote ==
    ASSUME NEW S \in SUBSET Nat, S # {}
    PROVE  \E r \in S : \A s \in S : r <= s
<1>1. IsWellFoundedOn(LessNote, Nat)
  BY NatLessThanWellFounded DEF OpToRel, LessNote
<1>2. PICK r \in S : \A s \in S : ~(<<s, r>> \in LessNote)
  BY <1>1, WFMin
<1>3. \A s \in S : ~(s < r)
  BY <1>2 DEF LessNote
<1>4. \A s \in S : r <= s
  BY <1>3
<1> QED BY <1>4

LEMMA NotesStayTyped ==
    ASSUME TInv, NEW c \in Clients, WriteNote(c) \/ AdoptLook(c) \/ Adopt(c)
    PROVE  TInv'
<1> DEFINE t == task[c]
<1>1. keepFiles /\ keepRows /\ keepRest /\ unrevoked' = unrevoked
  BY DEF WriteNote, AdoptLook, Adopt
<1>2. CASE WriteNote(c)
  <2>1. Done(c) /\ t.viewer.name \in Names \cup {None}
    BY <1>2, InHand DEF WriteNote, Viewers
  <2>2. TasksTyped'
    BY <2>1, DoneTyped DEF TInv
  <2>3. CASE keepNotes /\ UNCHANGED late
    BY <1>1, <2>2, <2>3, RestKeepsTypes DEF TInv, FilesTyped
  <2>4. CASE ~(keepNotes /\ UNCHANGED late)
    <3> DEFINE new == CHOOSE r \in Notes \ noted : \A s \in Notes \ noted : r <= s
    <3>1. noted # Notes
      BY <1>2, <2>4 DEF WriteNote
    <3>2. new \in Notes \ noted
      <4>1. Notes \ noted # {}
        BY <3>1 DEF TInv, NotesTyped
      <4>2. Notes \ noted \in SUBSET Nat
        BY DEF Notes
      <4>3. PICK r \in Notes \ noted : \A s \in Notes \ noted : r <= s
        BY <4>1, <4>2, LeastNote
      <4> QED BY <4>3
    <3>3. noted' = noted \cup {new} /\ owner' = [owner EXCEPT ![new] = t.viewer.name]
          /\ (late' = late \/ late' = [late EXCEPT !.notes = @ \cup {new}])
      BY <1>2, <2>4 DEF WriteNote
    <3>4. NotesTyped'
      <4> HIDE DEF new
      <4> QED BY <2>1, <3>2, <3>3 DEF TInv, NotesTyped
    <3> QED BY <1>1, <2>2, <3>4, RestKeepsTypes DEF TInv, FilesTyped
  <2> QED BY <2>3, <2>4
<1>3. CASE AdoptLook(c)
  <2> DEFINE h == [t EXCEPT !.todo = Unowned, !.name = Heir(c)]
  <2>1. t \in Tasks /\ TaskFits(t) /\ t.at = "adopt" /\ t.op \in Ops
    BY <1>3, InHand DEF AdoptLook, At
  <2>2. Done(c) \/ (Heir(c) # None /\ Go(c, "adopting", h))
    BY <1>3 DEF AdoptLook
  <2>3. ASSUME Heir(c) # None PROVE h \in Tasks /\ TaskFits([h EXCEPT !.at = "adopting"])
    <3>1. Heir(c) \in Names
      BY <2>3, HeirIsThere DEF Heir
    <3>2. Unowned \subseteq Notes
      BY DEF Unowned, TInv, NotesTyped
    <3> QED BY <2>1, <3>1, <3>2 DEF Tasks, TaskFits, WithToken, Creating, Changing
  <2> HIDE DEF h
  <2>4. TasksTyped'
    BY <2>2, <2>3, GoTyped, DoneTyped DEF TInv, Places
  <2>5. keepNotes /\ late' = late
    BY <1>3 DEF AdoptLook
  <2> QED BY <1>1, <2>4, <2>5, RestKeepsTypes DEF TInv, FilesTyped
<1>4. CASE Adopt(c)
  <2>1. t \in Tasks /\ TaskFits(t) /\ t.at = "adopting" /\ t.op \in Ops /\ t.todo \in SUBSET Notes
        /\ t.name \in Names
    BY <1>4, InHand DEF Adopt, At, TaskFits
  <2>2. CASE Done(c) /\ UNCHANGED <<owner, late>>
    <3>1. keepNotes /\ late' = late
      BY <1>4, <2>2 DEF Adopt, keepNotes
    <3> QED BY <1>1, <2>2, <3>1, DoneTyped, RestKeepsTypes DEF TInv, FilesTyped
  <2>3. CASE ~(Done(c) /\ UNCHANGED <<owner, late>>)
    <3>1. PICK r \in t.todo : /\ owner' = [owner EXCEPT ![r] = Handed(@, t.name)]
                              /\ late' = [late EXCEPT !.notes = @ \ {r}]
                              /\ Go(c, "adopting", [t EXCEPT !.todo = @ \ {r}])
                              /\ noted' = noted
      BY <1>4, <2>3 DEF Adopt
    <3> DEFINE h == [t EXCEPT !.todo = t.todo \ {r}]
    <3>2. h \in Tasks /\ TaskFits([h EXCEPT !.at = "adopting"]) /\ Go(c, "adopting", h)
      BY <2>1, <3>1 DEF Tasks, TaskFits, WithToken, Creating, Changing
    <3>3. TasksTyped'
      <4> HIDE DEF h
      <4> QED BY <3>2, GoTyped DEF TInv, Places
    <3>4. NotesTyped'
      BY <2>1, <3>1 DEF TInv, NotesTyped, Handed
    <3> QED BY <1>1, <3>3, <3>4, RestKeepsTypes DEF TInv, FilesTyped
  <2> QED BY <2>2, <2>3
<1> QED BY <1>2, <1>3, <1>4

LEMMA WorldTyped == ASSUME TInv, Tick \/ EditByHand \/ Restart PROVE TInv'
<1>1. CASE Tick
  <2>1. TasksTyped'
    BY <1>1 DEF Tick, TInv, TasksTyped, TaskFits, Known
  <2>2. now' \in 0..MaxNow
    BY <1>1, AccountBounds DEF Tick, TInv
  <2> QED BY <1>1, <2>1, <2>2, RestKeepsTypes DEF Tick, Quiet, TInv, FilesTyped
<1>2. CASE EditByHand
  <2>1. TasksTyped' /\ now' = now /\ keepRows /\ keepNotes /\ Quiet
    BY <1>2 DEF EditByHand, TInv, TasksTyped, TaskFits, Known
  <2>2. FilesTyped'
    BY <1>2, AccountEdits DEF EditByHand, Quiet, TInv, FilesTyped
  <2> QED BY <2>1, <2>2, RestKeepsTypes DEF TInv, Quiet
<1>3. CASE Restart
  <2>1. keepFiles /\ keepRows /\ now' = now /\ noted' = noted
    BY <1>3 DEF Restart
  <2>2. TasksTyped'
    <3>1. task' \in [Clients -> Tasks] /\ \A c \in Clients : task'[c] = Rest
      BY <1>3, RestIsTyped DEF Restart
    <3> QED BY <3>1, RestIsTyped DEF TasksTyped, TaskFits, Known
  <2>3. unrevoked' \subseteq Names
    BY <1>3 DEF Restart, TInv, FilesTyped, TasksTyped, TaskFits, At
  <2>4. NotesTyped'
    <3>1. CASE Cardinality(There) = 1
      <4>1. PICK taken \in SUBSET Unowned :
                 /\ owner' = [r \in Notes |-> IF r \in taken THEN CHOOSE n \in Names : n \in There ELSE owner[r]]
                 /\ late' = [late EXCEPT !.notes = @ \ taken] /\ unadopted' \in BOOLEAN
        BY <1>3, <3>1 DEF Restart
      <4> QED BY <2>1, <3>1, <4>1, HeirIsThere DEF TInv, NotesTyped
    <3>2. CASE Cardinality(There) # 1
      BY <1>3, <2>1, <3>2 DEF Restart, TInv, NotesTyped
    <3> QED BY <3>1, <3>2
  <2> QED BY <2>1, <2>2, <2>3, <2>4, RestKeepsTypes DEF TInv
<1> QED BY <1>1, <1>2, <1>3

LEMMA TNext == ASSUME TInv, [Next]_accountVars PROVE TInv'
<1>1. CASE UNCHANGED accountVars
  BY <1>1 DEF accountVars, accountGhosts, TInv, TasksTyped, TaskFits, Known, FilesTyped, RowsTyped,
              NotesTyped
<1>2. ASSUME NEW c \in Clients, Step(c) PROVE TInv'
  BY <1>2, AskTyped, GateTyped, LookUpTyped, FindAccountTyped, RenewTyped, CreateTyped, PatchTyped,
     DeleteTyped, RowsGoTyped, LogInTyped, NotesStayTyped DEF Step
<1> QED BY <1>1, <1>2, WorldTyped DEF Next

LEMMA TInit == ASSUME Init PROVE TInv
<1>1. TasksTyped
  <2>1. task \in [Clients -> Tasks] /\ \A c \in Clients : task[c] = Rest
    BY RestIsTyped DEF Init
  <2> QED BY <2>1, RestIsTyped DEF TasksTyped
<1>2. FilesTyped
  BY AccountStarts DEF Init, FilesTyped, Files
<1>3. RowsTyped
  <2>0. PICK n \in 0..MaxSignIns : \E holder \in [1..n -> There] :
          /\ minted = n
          /\ sessions = [t \in Tokens |-> IF t > n THEN None ELSE
                [user |-> holder[t], expires |-> Lifetime, pass |-> accounts[holder[t]].pass]]
    BY DEF Init
  <2>1. PICK holder \in [1..n -> There] :
          /\ minted = n
          /\ sessions = [t \in Tokens |-> IF t > n THEN None ELSE
                [user |-> holder[t], expires |-> Lifetime, pass |-> accounts[holder[t]].pass]]
    BY <2>0
  <2>2. ASSUME NEW t \in Tokens, ~(t > n)
        PROVE  [user |-> holder[t], expires |-> Lifetime, pass |-> accounts[holder[t]].pass] \in Rows
    <3>1. t \in 1..n
      BY <2>2 DEF Tokens
    <3>2. holder[t] \in Names /\ accounts[holder[t]] # None
      BY <3>1 DEF There
    <3>3. accounts[holder[t]] \in [role : Roles, pass : Passwords]
      BY <3>2, AccountStarts DEF Init
    <3>4. Lifetime \in 0..MaxNow + Lifetime
      BY AccountBounds
    <3> QED BY <3>2, <3>3, <3>4 DEF Rows
  <2>3. sessions \in [Tokens -> Rows \cup {None}]
    BY <2>1, <2>2
  <2>4. used \in [Tokens -> 0..MaxNow \cup {None}] /\ ended \subseteq Tokens
    BY AccountBounds DEF Init
  <2> QED BY <2>1, <2>3, <2>4 DEF RowsTyped
<1>4. NotesTyped
  BY DEF Init, NotesTyped
<1>5. now \in 0..MaxNow
  BY AccountBounds DEF Init
<1> QED BY <1>1, <1>2, <1>3, <1>4, <1>5 DEF TInv

\* Accounts, rows, notes and requests stay of their kinds: what a request has
\* read fits what it goes on to write, through every await.
THEOREM AccountsTypeOK == Spec => []TypeOK
<1>1. Spec => []TInv
  BY TInit, TNext, PTL DEF Spec
<1> QED BY <1>1, TypesAreTypes, PTL
-----------------------------------------------------------------------------
(* Sessions.                                                               *)
(*                                                                         *)
(* A row is not read and renewed in one step, so what keeps it is said of  *)
(* the requests between the two: a request is at most one step of the      *)
(* clock old, and one that found a fresh row need not renew it, for the    *)
(* row lasts for what is counted from that request on.                     *)

\* The row outlives a use at u by the lifetime less what may go unrenewed, or
\* outlived it: a row is not gone before that unless somebody ended it.
Lasts(k, u) ==
    \/ k \in ended
    \/ /\ sessions[k] = None
       /\ u + Lifetime - RenewAfter <= now
    \/ /\ sessions[k] # None
       /\ u + Lifetime - RenewAfter <= sessions[k].expires

\* A request takes less time than the clock does to move twice.
Quick == \A c \in Clients :
            task[c].at # "rest" => task[c].now <= now /\ now <= task[c].now + 1

UsedLasts == \A k \in 1..minted : used[k] \in 0..now /\ Lasts(k, used[k])

\* A request about to be taken for somebody, that need not renew its row.
Sees(h) == h.at = "account" /\ Fresh(h.seen, h.now)
SeenLasts == \A c \in Clients : Sees(task[c]) => Lasts(task[c].token, task[c].now)

Uses == Quick /\ UsedLasts /\ SeenLasts

\* A row is worth the password of its account, or it is said why not.
Worth(k, n, pass) ==
    \/ IsAccount(accounts[n]) /\ accounts[n].pass = pass
    \/ k \in late.tokens \/ n \in unrevoked \/ raced \/ edited
    \/ \E c \in Clients : At(c, "revoke") /\ task[c].name = n

SInv == TInv /\ IInv /\ Uses /\ SessionsHoldThePassword

LEMMA PasswordsByRow ==
    SessionsHoldThePassword <=>
        \A k \in Tokens : sessions[k] # None => Worth(k, sessions[k].user, sessions[k].pass)
BY DEF SessionsHoldThePassword, Worth

LEMMA UsesKeepSessions == ASSUME SInv PROVE UseKeepsASession
<1> SUFFICES ASSUME NEW k \in 1..minted, k \notin ended, now < used[k] + Lifetime - RenewAfter
             PROVE  sessions[k] # None /\ sessions[k].expires > now
  BY DEF UseKeepsASession
<1>1. Lasts(k, used[k]) /\ used[k] \in Nat /\ now \in Nat
  BY DEF SInv, Uses, UsedLasts, TInv
<1>2. Lifetime \in Nat /\ RenewAfter \in Nat
  BY AccountBounds
<1>3. k \in Tokens /\ sessions[k] \in Rows \cup {None}
  BY AccountBounds DEF SInv, TInv, RowsTyped, Tokens
<1>4. sessions[k] # None => sessions[k].expires \in Nat
  BY <1>3, <1>2, AccountBounds DEF Rows
<1> QED BY <1>1, <1>2, <1>4 DEF Lasts

\* What a step may do to a row that somebody counts on.
RowStep(k) ==
    \/ k \in ended'
    \/ sessions'[k] = sessions[k]
    \/ sessions[k] # None /\ sessions'[k] = None /\ sessions[k].expires <= now
    \/ sessions[k] # None /\ sessions'[k] # None /\ now + Lifetime <= sessions'[k].expires + 1

LEMMA RowLasts ==
    ASSUME TInv, TInv', now <= now', ended \subseteq ended',
           NEW k \in Tokens, RowStep(k), NEW u \in 0..now, Lasts(k, u)
    PROVE  Lasts(k, u)'
<1>1. u \in Nat /\ now \in Nat /\ now' \in Nat /\ u <= now
  BY DEF TInv
<1>2. Lifetime \in Nat /\ RenewAfter \in Nat /\ 0 < RenewAfter
  BY AccountBounds, AccountLifetime
<1>3. sessions[k] \in Rows \cup {None} /\ sessions'[k] \in Rows \cup {None}
  BY DEF TInv, RowsTyped
<1>4. /\ sessions[k] # None => sessions[k].expires \in Nat
      /\ sessions'[k] # None => sessions'[k].expires \in Nat
  BY <1>3, AccountBounds DEF Rows
<1>5. CASE k \in ended'
  BY <1>5 DEF Lasts
<1>6. CASE sessions'[k] = sessions[k]
  BY <1>1, <1>2, <1>4, <1>6 DEF Lasts
<1>7. CASE sessions[k] # None /\ sessions'[k] = None /\ sessions[k].expires <= now
  BY <1>1, <1>2, <1>4, <1>7 DEF Lasts
<1>8. CASE sessions[k] # None /\ sessions'[k] # None /\ now + Lifetime <= sessions'[k].expires + 1
  BY <1>1, <1>2, <1>4, <1>8 DEF Lasts
<1> QED BY <1>5, <1>6, <1>7, <1>8 DEF RowStep

\* Others stay where they are, with what they have in hand.
OthersStay(c) == \A d \in Clients \ {c} : task'[d] = task[d]

\* A step of request c that leaves the clock and the tokens alone.
LEMMA UsesKeep ==
    ASSUME TInv, TInv', IInv, Uses, NEW c \in Clients, UNCHANGED <<now, minted>>,
           ended \subseteq ended', \A k \in 1..minted : RowStep(k), OthersStay(c),
           \A k \in 1..minted : used'[k] = used[k] \/ (used'[k] \in 0..now /\ Lasts(k, used[k])'),
           Sees(task'[c]) => Lasts(task[c].token, task[c].now)',
           task'[c].at # "rest" => task'[c].now <= now /\ now <= task'[c].now + 1
    PROVE  Uses'
<1>1. 1..minted \subseteq Tokens /\ now \in Nat /\ now <= now' /\ now' = now
  BY AccountBounds DEF TInv, RowsTyped, Tokens
<1>2. Quick'
  BY DEF Uses, Quick, OthersStay
<1>3. ASSUME NEW k \in 1..minted PROVE used'[k] \in 0..now' /\ Lasts(k, used[k])'
  <2>1. CASE used'[k] = used[k]
    <3>1. PICK u : u = used[k]
      OBVIOUS
    <3>2. u \in 0..now /\ Lasts(k, u)
      BY <3>1 DEF Uses, UsedLasts
    <3>3. Lasts(k, u)'
      BY <1>1, <3>2, RowLasts
    <3> QED BY <1>1, <2>1, <3>1, <3>2, <3>3 DEF Lasts
  <2>2. CASE used'[k] \in 0..now /\ Lasts(k, used[k])'
    BY <1>1, <2>2
  <2> QED BY <2>1, <2>2
<1>4. UsedLasts'
  BY <1>3 DEF UsedLasts
<1>5. ASSUME NEW d \in Clients, Sees(task'[d]) PROVE Lasts(task[d].token, task[d].now)'
  <2>1. CASE d # c
    <3>1. PICK k, u : k = task[d].token /\ u = task[d].now
      OBVIOUS
    <3>2. task'[d] = task[d] /\ Sees(task[d])
      BY <1>5, <2>1 DEF OthersStay
    <3>3. k \in 1..minted
      BY <3>1, <3>2 DEF Sees, IInv, HandsFit, Hand, WithToken
    <3>4. u \in 0..now /\ Lasts(k, u)
      BY <3>1, <3>2, InHand DEF Uses, SeenLasts, Quick, Sees
    <3>5. Lasts(k, u)'
      BY <1>1, <3>3, <3>4, RowLasts
    <3> QED BY <3>1, <3>2, <3>5 DEF Lasts
  <2> QED BY <1>5, <2>1
<1>6. SeenLasts'
  BY <1>5 DEF SeenLasts, Sees
<1> QED BY <1>2, <1>4, <1>6 DEF Uses
\* A request that goes on, or is over, and looks at no row; the others stay.
LEMMA GoesOn ==
    ASSUME TInv, NEW c \in Clients, NEW where, NEW h, {"at", "now"} \subseteq DOMAIN h,
           Go(c, where, h)
    PROVE  OthersStay(c) /\ task'[c].at = where /\ task'[c].now = h.now
BY DEF TInv, TasksTyped, Go, OthersStay

LEMMA IsOver ==
    ASSUME TInv, NEW c \in Clients, Done(c)
    PROVE  OthersStay(c) /\ task'[c] = Rest /\ task'[c].at = "rest"
BY DEF TInv, TasksTyped, Done, OthersStay, Rest

\* A request that was under way is no older for going on.
GoesBy(c) ==
    /\ OthersStay(c) /\ task'[c].at # "account"
    /\ task'[c].at # "rest" => task[c].at # "rest" /\ task'[c].now = task[c].now

LEMMA AdmitGoesBy ==
    ASSUME TInv, NEW c \in Clients, ~At(c, "rest"),
           AdmitNobody(c) \/ Done(c) \/ \E viewer : Admit(c, viewer)
    PROVE  GoesBy(c)
<1>1. CASE Done(c)
  BY <1>1, IsOver DEF GoesBy
<1>2. ASSUME NEW viewer, Admit(c, viewer) PROVE GoesBy(c)
  <2>1. task[c].op \in Ops /\ task[c] \in Tasks
    BY InHand
  <2>2. Go(c, task[c].op, [task[c] EXCEPT !.viewer = viewer])
    BY <1>2 DEF Admit
  <2>3. {"at", "now"} \subseteq DOMAIN [task[c] EXCEPT !.viewer = viewer]
        /\ [task[c] EXCEPT !.viewer = viewer].now = task[c].now
    BY <2>1 DEF Tasks
  <2>4. OthersStay(c) /\ task'[c].at = task[c].op /\ task'[c].now = task[c].now
    BY <2>2, <2>3, GoesOn
  <2> QED BY <2>1, <2>4 DEF GoesBy, Ops, At
<1> QED BY <1>1, <1>2 DEF AdmitNobody

\* Everything but asking, the look at a session, and a new one, goes by.
LEMMA StepsGoBy ==
    ASSUME TInv, NEW c \in Clients,
           \/ Gate(c) \/ FindAccount(c) \/ Renew(c)
           \/ CreateLook(c) \/ CreateCheck(c) \/ CreateWrite(c)
           \/ PatchRead(c) \/ PatchCheck(c) \/ PatchWrite(c)
           \/ DeleteRead(c) \/ DeleteCheck(c) \/ DeleteFile(c) \/ Revoke(c)
           \/ LogInVerify(c) \/ Purge(c) \/ LogOut(c)
           \/ WriteNote(c) \/ AdoptLook(c) \/ Adopt(c) \/ Fail(c)
    PROVE  GoesBy(c)
<1> DEFINE t == task[c]
<1>1. t \in Tasks /\ t.op \in Ops /\ {"at", "now"} \subseteq DOMAIN t
  BY InHand DEF Tasks
<1>2. ASSUME NEW where \in Places \ {"rest", "account"}, NEW h,
             Go(c, where, h), {"at", "now"} \subseteq DOMAIN h, h.now = t.now, ~At(c, "rest")
      PROVE  GoesBy(c)
  BY <1>2, GoesOn DEF GoesBy, At
<1>3. ~At(c, "rest")
  BY DEF Gate, FindAccount, Renew, CreateLook, CreateCheck, CreateWrite, PatchRead, PatchCheck,
         PatchWrite, DeleteRead, DeleteCheck, DeleteFile, Revoke, LogInVerify, Purge, LogOut,
         WriteNote, AdoptLook, Adopt, Fail, At
<1>4. \/ AdmitNobody(c) \/ Done(c) \/ \E viewer : Admit(c, viewer)
      \/ \E where \in Places \ {"rest", "account"} :
           \/ Go(c, where, t)
           \/ \E v : Go(c, where, [t EXCEPT !.viewer = v])
           \/ \E v : Go(c, where, [t EXCEPT !.seen = v])
           \/ \E v : Go(c, where, [t EXCEPT !.others = v])
           \/ \E v : Go(c, where, [t EXCEPT !.todo = v])
           \/ \E v, w : Go(c, where, [t EXCEPT !.boot = v, !.role = w])
           \/ \E v, w : Go(c, where, [t EXCEPT !.todo = v, !.name = w])
  <2>1. CASE Gate(c)
    BY <2>1 DEF Gate, Places
  <2>2. CASE FindAccount(c)
    BY <2>2 DEF FindAccount, Places
  <2>3. CASE Renew(c)
    BY <1>1, <2>3 DEF Renew, Places, Ops
  <2>4. CASE CreateLook(c)
    BY <2>4 DEF CreateLook, Places
  <2>5. CASE CreateCheck(c) \/ CreateWrite(c)
    BY <2>5 DEF CreateCheck, CreateWrite, Places
  <2>6. CASE PatchRead(c) \/ PatchCheck(c) \/ PatchWrite(c)
    BY <2>6 DEF PatchRead, PatchCheck, PatchWrite, Places
  <2>7. CASE DeleteRead(c) \/ DeleteCheck(c) \/ DeleteFile(c)
    BY <2>7 DEF DeleteRead, DeleteCheck, DeleteFile, Places
  <2>8. CASE Revoke(c) \/ Purge(c) \/ LogOut(c) \/ WriteNote(c) \/ Fail(c)
    BY <2>8 DEF Revoke, Purge, LogOut, WriteNote, Fail
  <2>9. CASE LogInVerify(c)
    BY <2>9 DEF LogInVerify, Places
  <2>10. CASE AdoptLook(c)
    BY <2>10 DEF AdoptLook, Places
  <2>11. CASE Adopt(c)
    BY <2>11 DEF Adopt, Places
  <2> QED BY <2>1, <2>2, <2>3, <2>4, <2>5, <2>6, <2>7, <2>8, <2>9, <2>10, <2>11
<1>5. CASE AdmitNobody(c) \/ Done(c) \/ \E viewer : Admit(c, viewer)
  BY <1>3, <1>5, AdmitGoesBy
<1>6. ASSUME NEW where \in Places \ {"rest", "account"}, NEW v, NEW w,
             NEW h \in {t, [t EXCEPT !.viewer = v], [t EXCEPT !.seen = v], [t EXCEPT !.others = v],
                        [t EXCEPT !.todo = v], [t EXCEPT !.boot = v, !.role = w],
                        [t EXCEPT !.todo = v, !.name = w]},
             Go(c, where, h)
      PROVE  GoesBy(c)
  <2>1. {"at", "now"} \subseteq DOMAIN h /\ h.now = t.now
    BY <1>1, <1>6 DEF Tasks
  <2> QED BY <1>2, <1>3, <1>6, <2>1
<1> QED BY <1>4, <1>5, <1>6

\* Steps that use no row: rows stay, are ended, or are gone when they are due.
LEMMA RowsGoBy ==
    ASSUME TInv, TInv', IInv, Uses, NEW c \in Clients, GoesBy(c), UNCHANGED <<now, minted, used>>,
           ended \subseteq ended', \A k \in 1..minted : RowStep(k)
    PROVE  Uses'
<1>1. ~Sees(task'[c])
  BY DEF GoesBy, Sees
<1>2. task'[c].at # "rest" => task'[c].now <= now /\ now <= task'[c].now + 1
  BY DEF GoesBy, Uses, Quick
<1> QED BY <1>1, <1>2, UsesKeep DEF GoesBy

LEMMA TokensInHand ==
    ASSUME TInv, NEW c \in Clients, task[c].at \in WithToken
    PROVE  task[c].token \in Tokens
BY DEF TInv, TasksTyped, TaskFits

\* The requests whose work is not about sessions, and those that take rows away.
LEMMA HandlersUseNothing ==
    ASSUME TInv, TInv', IInv, Uses, NEW c \in Clients,
           \/ Gate(c)
           \/ CreateLook(c) \/ CreateCheck(c) \/ CreateWrite(c)
           \/ PatchRead(c) \/ PatchCheck(c) \/ PatchWrite(c)
           \/ DeleteRead(c) \/ DeleteCheck(c) \/ DeleteFile(c) \/ LogInVerify(c)
           \/ WriteNote(c) \/ AdoptLook(c) \/ Adopt(c) \/ Fail(c)
    PROVE  Uses'
<1>1. keepRows /\ now' = now
  BY DEF Gate, CreateLook, CreateCheck, CreateWrite, PatchRead, PatchCheck,
         PatchWrite, DeleteRead, DeleteCheck, DeleteFile, LogInVerify,
         WriteNote, AdoptLook, Adopt, Fail, keepRest
<1>2. ended \subseteq ended' /\ \A k \in 1..minted : RowStep(k)
  BY <1>1 DEF keepRows, RowStep
<1>3. UNCHANGED <<now, minted, used>>
  BY <1>1 DEF keepRows
<1> QED BY <1>2, <1>3, StepsGoBy, RowsGoBy

LEMMA RowsAreTakenAway ==
    ASSUME TInv, TInv', IInv, Uses, NEW c \in Clients, Revoke(c) \/ Purge(c) \/ LogOut(c)
    PROVE  Uses'
<1>1. UNCHANGED <<now, minted, used>> /\ ended \subseteq ended'
  BY DEF Revoke, Purge, LogOut, keepRest
<1>2. 1..minted \subseteq Tokens /\ DOMAIN sessions = Tokens
  BY AccountBounds DEF TInv, RowsTyped, Tokens
<1>3. ASSUME NEW k \in 1..minted PROVE RowStep(k)
  <2>1. CASE Revoke(c)
    BY <1>2, <2>1 DEF Revoke, RowStep
  <2>2. CASE LogOut(c)
    BY <1>2, <2>2 DEF LogOut, RowStep
  <2>3. CASE Purge(c)
    <3>1. sessions'[k] = IF sessions[k] # None /\ sessions[k].expires <= task[c].now
                         THEN None ELSE sessions[k]
      BY <1>2, <2>3 DEF Purge, Purged
    <3>2. task[c].now <= now /\ task[c].now \in Nat /\ now \in Nat
      BY <2>3, InHand DEF Purge, At, Uses, Quick, TInv
    <3>3. sessions[k] # None => sessions[k].expires \in Nat
      BY <1>2, AccountBounds DEF TInv, RowsTyped, Rows
    <3> QED BY <3>1, <3>2, <3>3 DEF RowStep
  <2> QED BY <2>1, <2>2, <2>3
<1> QED BY <1>1, <1>3, StepsGoBy, RowsGoBy
\* A request starts now.
LEMMA AskUses == ASSUME TInv, TInv', IInv, Uses, NEW c \in Clients, Ask(c) PROVE Uses'
<1>1. keepRows /\ UNCHANGED <<now, minted, used>>
  BY DEF Ask, keepRows
<1>2. OthersStay(c) /\ task'[c].at = "gate" /\ task'[c].now = now
  <2>1. PICK what \in Asked : \E token \in 1..minted \cup {None} :
          Go(c, "gate", [Rest EXCEPT !.op = what.op, !.name = what.name, !.role = what.role,
                                     !.pass = what.pass, !.token = token, !.now = now])
    BY DEF Ask
  <2>2. PICK token \in 1..minted \cup {None} :
          Go(c, "gate", [Rest EXCEPT !.op = what.op, !.name = what.name, !.role = what.role,
                                     !.pass = what.pass, !.token = token, !.now = now])
    BY <2>1
  <2> DEFINE h == [Rest EXCEPT !.op = what.op, !.name = what.name, !.role = what.role,
                               !.pass = what.pass, !.token = token, !.now = now]
  <2>3. {"at", "now"} \subseteq DOMAIN h /\ h.now = now /\ Go(c, "gate", h)
    BY <2>2 DEF Rest
  <2> HIDE DEF h
  <2> QED BY <2>3, GoesOn
<1>3. ended \subseteq ended' /\ \A k \in 1..minted : RowStep(k)
  BY <1>1 DEF keepRows, RowStep
<1>4. task'[c].now <= now /\ now <= task'[c].now + 1
  BY <1>2 DEF TInv
<1> QED BY <1>1, <1>2, <1>3, <1>4, UsesKeep DEF Sees

\* A fresh row is good for what is counted from here, an expired one is gone.
LEMMA LookUpUses == ASSUME TInv, TInv', IInv, Uses, NEW c \in Clients, LookUpSession(c) PROVE Uses'
<1> DEFINE t == task[c]
<1>1. /\ UNCHANGED <<now, minted, used, ended>> /\ t.at = "session" /\ t.token \in Tokens
      /\ t \in Tasks /\ t.now <= now /\ now <= t.now + 1
  BY TokensInHand, InHand DEF LookUpSession, At, WithToken, keepRest, Uses, Quick
<1>2. t.now \in Nat /\ now \in Nat /\ Lifetime \in Nat /\ RenewAfter \in Nat
  BY AccountBounds, InHand DEF TInv
<1>3. \A k \in Tokens : sessions[k] \in Rows \cup {None}
  BY DEF TInv, RowsTyped
<1>4. \A k \in Tokens : sessions[k] # None => sessions[k].expires \in Nat
  BY <1>3, AccountBounds DEF Rows
<1>5. 1..minted \subseteq Tokens /\ DOMAIN sessions = Tokens
  BY AccountBounds DEF TInv, RowsTyped, Tokens
<1>6. CASE /\ sessions[t.token] = None \/ Expired(sessions[t.token], t.now)
           /\ AdmitNobody(c) /\ sessions' = [sessions EXCEPT ![t.token] = None]
  <2>1. ASSUME NEW k \in 1..minted PROVE RowStep(k)
    BY <1>1, <1>2, <1>4, <1>5, <1>6 DEF RowStep, Expired
  <2>2. GoesBy(c)
    BY <1>1, <1>6, AdmitGoesBy DEF At
  <2>3. ended \subseteq ended' /\ UNCHANGED <<now, minted, used>>
    BY <1>1
  <2> QED BY <2>1, <2>2, <2>3, RowsGoBy
<1>7. CASE /\ sessions[t.token] # None
           /\ Go(c, "account", [t EXCEPT !.seen = sessions[t.token]]) /\ UNCHANGED sessions
  <2> DEFINE h == [t EXCEPT !.seen = sessions[t.token]]
  <2>1. \A k \in 1..minted : RowStep(k)
    BY <1>7 DEF RowStep
  <2>2. {"at", "now"} \subseteq DOMAIN h /\ h.now = t.now /\ h.token = t.token
        /\ h.seen = sessions[t.token]
    BY <1>1 DEF Tasks
  <2>3. OthersStay(c) /\ task'[c] = [h EXCEPT !.at = "account"]
    BY <1>7 DEF TInv, TasksTyped, Go, OthersStay
  <2>4. task'[c].now = t.now /\ task'[c].token = t.token /\ task'[c].seen = sessions[t.token]
    <3> HIDE DEF h
    <3> QED BY <2>2, <2>3
  <2>5. Sees(task'[c]) => Lasts(task[c].token, task[c].now)'
    <3>1. Fresh(sessions[t.token], t.now) => t.now + Lifetime - RenewAfter <= sessions[t.token].expires
      BY <1>1, <1>2, <1>4, <1>7 DEF Fresh
    <3> QED BY <1>7, <2>4, <3>1 DEF Sees, Lasts
  <2>6. task'[c].now <= now /\ now <= task'[c].now + 1
    BY <1>1, <2>4
  <2>7. ended \subseteq ended' /\ UNCHANGED <<now, minted, used>>
    BY <1>1
  <2> QED BY <2>1, <2>3, <2>5, <2>6, <2>7, UsesKeep
<1> QED BY <1>6, <1>7 DEF LookUpSession

\* It is taken for somebody at once when its row is fresh.
LEMMA FindAccountUses == ASSUME TInv, TInv', IInv, Uses, NEW c \in Clients, FindAccount(c) PROVE Uses'
<1> DEFINE t == task[c]
<1>1. /\ UNCHANGED <<now, minted>> /\ t.at = "account" /\ t.token \in Tokens
      /\ ended \subseteq ended' /\ t.now <= now /\ GoesBy(c)
  BY TokensInHand, StepsGoBy DEF FindAccount, At, WithToken, keepRest, Uses, Quick
<1>2. 1..minted \subseteq Tokens /\ DOMAIN sessions = Tokens /\ t.now \in Nat /\ now \in Nat
  BY AccountBounds, InHand DEF TInv, RowsTyped, Tokens
<1>3. \A k \in 1..minted : RowStep(k)
  BY <1>1, <1>2 DEF FindAccount, RowStep
<1>4. CASE used' = used
  BY <1>1, <1>3, <1>4, RowsGoBy
<1>5. CASE used' # used
  <2>1. /\ Fresh(t.seen, t.now) /\ used' = [used EXCEPT ![t.token] = t.now]
        /\ UNCHANGED <<sessions, ended>>
    BY <1>5 DEF FindAccount
  <2>2. Lasts(t.token, t.now)
    BY <1>1, <2>1 DEF Uses, SeenLasts, Sees
  <2>3. ASSUME NEW k \in 1..minted, used'[k] # used[k]
        PROVE  used'[k] \in 0..now /\ Lasts(k, used[k])'
    <3>1. k = t.token /\ used'[k] = t.now
      BY <2>1, <2>3, <1>2 DEF TInv, RowsTyped
    <3>2. Lasts(k, t.now) /\ UNCHANGED <<sessions, ended, now>>
      BY <1>1, <2>1, <2>2, <3>1
    <3> QED BY <1>1, <1>2, <3>1, <3>2 DEF Lasts
  <2>4. ~Sees(task'[c])
    BY <1>1 DEF GoesBy, Sees
  <2>5. task'[c].at # "rest" => task'[c].now <= now /\ now <= task'[c].now + 1
    BY <1>1 DEF GoesBy, Uses, Quick
  <2> QED BY <1>1, <1>3, <2>3, <2>4, <2>5, UsesKeep DEF GoesBy
<1> QED BY <1>4, <1>5

\* A row that is there when it is renewed lasts from this request on, and for
\* every earlier use: no request under way is older than one step of the clock.
LEMMA RenewUses == ASSUME TInv, TInv', IInv, Uses, NEW c \in Clients, Renew(c) PROVE Uses'
<1> DEFINE t == task[c]
<1>1. /\ UNCHANGED <<now, minted, ended>> /\ t.at = "renew" /\ t.token \in Tokens
      /\ t.now <= now /\ now <= t.now + 1 /\ GoesBy(c)
  BY TokensInHand, StepsGoBy DEF Renew, At, WithToken, Uses, Quick
<1>2. /\ 1..minted \subseteq Tokens /\ DOMAIN sessions = Tokens /\ DOMAIN used = Tokens
      /\ t.now \in Nat /\ now \in Nat /\ Lifetime \in Nat /\ RenewAfter \in Nat
  BY AccountBounds, InHand DEF TInv, RowsTyped, Tokens
<1>3. CASE UNCHANGED <<sessions, used>>
  <2>1. ended \subseteq ended' /\ UNCHANGED <<now, minted, used>> /\ \A k \in 1..minted : RowStep(k)
    BY <1>1, <1>3 DEF RowStep
  <2> QED BY <1>1, <2>1, RowsGoBy
<1>4. CASE ~UNCHANGED <<sessions, used>>
  <2>1. /\ sessions' = [sessions EXCEPT ![t.token] = Renewed(@, t.seen, t.now)]
        /\ used' = [used EXCEPT ![t.token] = IF sessions[t.token] = None THEN @ ELSE t.now]
    BY <1>4 DEF Renew
  <2>2. /\ sessions[t.token] = None => sessions'[t.token] = None /\ used'[t.token] = used[t.token]
        /\ sessions[t.token] # None => /\ sessions'[t.token] # None
                                       /\ sessions'[t.token].expires = t.now + Lifetime
                                       /\ used'[t.token] = t.now
    <3>1. sessions[t.token] \in Rows \cup {None} /\ sessions'[t.token] \in Rows \cup {None}
      BY <1>1 DEF TInv, RowsTyped
    <3>2. None \notin Rows
      BY AccountNone
    <3>3. sessions'[t.token] = Renewed(sessions[t.token], t.seen, t.now)
          /\ used'[t.token] = IF sessions[t.token] = None THEN used[t.token] ELSE t.now
      BY <1>1, <1>2, <2>1
    <3>4. CASE sessions[t.token] = None
      BY <3>3, <3>4 DEF Renewed
    <3>5. CASE sessions[t.token] # None
      <4>1. sessions[t.token] \in Rows
        BY <3>1, <3>5
      <4>2. t.now + Lifetime \in 0..MaxNow + Lifetime
        <5>1. t.now \in 0..MaxNow /\ MaxNow \in Nat
          BY AccountBounds, InHand
        <5> QED BY <1>2, <5>1
      <4>3. [sessions[t.token] EXCEPT !.expires = t.now + Lifetime] \in Rows
        BY <4>1, <4>2 DEF Rows
      <4>4. [sessions[t.token] EXCEPT !.expires = t.now + Lifetime].expires = t.now + Lifetime
        BY <4>1 DEF Rows
      <4> QED BY <3>2, <3>3, <3>5, <4>3, <4>4 DEF Renewed
    <3> QED BY <3>4, <3>5
  <2>3. ASSUME NEW k \in 1..minted PROVE RowStep(k)
    BY <1>1, <1>2, <2>1, <2>2 DEF RowStep
  <2>4. ASSUME NEW k \in 1..minted, used'[k] # used[k]
        PROVE  used'[k] \in 0..now /\ Lasts(k, used[k])'
    <3>1. k = t.token /\ sessions'[k] # None /\ sessions'[k].expires = t.now + Lifetime
          /\ used'[k] = t.now
      BY <1>2, <2>1, <2>2, <2>4
    <3>2. t.now + Lifetime - RenewAfter <= sessions'[k].expires
      BY <1>2, <3>1
    <3> QED BY <1>1, <1>2, <3>1, <3>2 DEF Lasts
  <2>5. ended \subseteq ended' /\ ~Sees(task'[c])
    BY <1>1 DEF GoesBy, Sees
  <2>6. task'[c].at # "rest" => task'[c].now <= now /\ now <= task'[c].now + 1
    BY <1>1 DEF GoesBy
  <2> QED BY <1>1, <2>3, <2>4, <2>5, <2>6, UsesKeep DEF GoesBy
<1> QED BY <1>3, <1>4
\* A new session lasts from now on.
LEMMA MintUses == ASSUME TInv, TInv', IInv, Uses, NEW c \in Clients, LogInMint(c) PROVE Uses'
<1> DEFINE n == minted + 1
           t == task[c]
           h == [t EXCEPT !.now = now]
           row == [user |-> t.name, expires |-> now + Lifetime, pass |-> t.pass]
<1>1. /\ Go(c, "purge", h) /\ minted' = n /\ UNCHANGED <<now, ended>>
      /\ sessions' = [sessions EXCEPT ![n] = row] /\ used' = [used EXCEPT ![n] = now]
  BY DEF LogInMint, keepRest
<1>2. /\ minted \in Nat /\ n \in Tokens /\ n \notin 1..minted /\ 1..minted \subseteq Tokens
      /\ 1..n = 1..minted \cup {n}
  BY AccountBounds DEF LogInMint, TInv, RowsTyped, Tokens
<1>3. now \in Nat /\ Lifetime \in Nat /\ RenewAfter \in Nat
  BY AccountBounds DEF TInv
<1>4. sessions'[n] = row /\ used'[n] = now /\ row # None /\ row.expires = now + Lifetime
  <2>1. row \in Rows
    <3>1. t.name \in Names /\ t.pass \in Passwords /\ now \in 0..MaxNow /\ MaxNow \in Nat
      BY InHand, AccountBounds DEF LogInMint, At, TaskFits, TInv
    <3>2. now + Lifetime \in 0..MaxNow + Lifetime
      BY <1>3, <3>1
    <3> QED BY <3>1, <3>2 DEF Rows
  <2>2. sessions'[n] = row /\ used'[n] = now
    BY <1>1, <1>2 DEF TInv, RowsTyped
  <2>3. row # None /\ row.expires = now + Lifetime
    BY <2>1, AccountNone
  <2> QED BY <2>2, <2>3
<1>5. \A k \in 1..minted : sessions'[k] = sessions[k] /\ used'[k] = used[k]
  BY <1>1, <1>2 DEF TInv, RowsTyped
<1>6. ASSUME NEW k \in 1..minted, NEW u, Lasts(k, u) PROVE Lasts(k, u)'
  BY <1>1, <1>5, <1>6 DEF Lasts
<1>7. OthersStay(c) /\ task'[c].at = "purge" /\ task'[c].now = now
  <2>1. {"at", "now"} \subseteq DOMAIN h /\ h.now = now
    BY InHand DEF Tasks
  <2> HIDE DEF h
  <2> QED BY <1>1, <2>1, GoesOn
<1>8. Quick'
  BY <1>1, <1>3, <1>7 DEF Uses, Quick, OthersStay
<1>9. UsedLasts'
  <2>1. ASSUME NEW k \in 1..minted PROVE used'[k] \in 0..now /\ Lasts(k, used[k])'
    <3>1. PICK u : u = used[k]
      OBVIOUS
    <3>2. u \in 0..now /\ Lasts(k, u)
      BY <3>1 DEF Uses, UsedLasts
    <3> QED BY <1>5, <1>6, <3>1, <3>2 DEF Lasts
  <2>2. used'[n] \in 0..now /\ (Lasts(minted, used[minted]))'
    <3>1. now + Lifetime - RenewAfter <= row.expires
      BY <1>3, <1>4
    <3> HIDE DEF row
    <3> QED BY <1>1, <1>3, <1>4, <3>1 DEF Lasts
  <2>3. \A k \in 1..minted' : used'[k] \in 0..now' /\ Lasts(k, used[k])'
    BY <1>1, <1>2, <2>1, <2>2 DEF Lasts
  <2> QED BY <2>3 DEF UsedLasts
<1>10. SeenLasts'
  <2>1. ASSUME NEW d \in Clients, Sees(task'[d]) PROVE Lasts(task[d].token, task[d].now)'
    <3>1. task'[d] = task[d] /\ Sees(task[d])
      BY <1>7, <2>1 DEF OthersStay, Sees
    <3>2. PICK k, u : k = task[d].token /\ u = task[d].now
      OBVIOUS
    <3>3. k \in 1..minted /\ Lasts(k, u)
      BY <3>1, <3>2 DEF Sees, IInv, HandsFit, Hand, WithToken, Uses, SeenLasts
    <3>4. Lasts(k, u)'
      BY <1>6, <3>3
    <3> QED BY <3>1, <3>2, <3>4 DEF Lasts
  <2> QED BY <2>1 DEF SeenLasts, Sees
<1> QED BY <1>8, <1>9, <1>10 DEF Uses

\* When the clock moves, nobody under way is older than one step of it.
LEMMA WorldUses ==
    ASSUME TInv, TInv', IInv, Uses, Tick \/ EditByHand \/ Restart
    PROVE  Uses'
<1>1. keepRows
  BY DEF Tick, EditByHand, Restart
<1>2. 1..minted \subseteq Tokens /\ now \in Nat /\ now' \in Nat /\ now <= now'
  BY AccountBounds DEF TInv, RowsTyped, Tokens, Tick, EditByHand, Restart
<1>3. ASSUME NEW k \in 1..minted, NEW u \in 0..now, Lasts(k, u) PROVE Lasts(k, u)'
  BY <1>1, <1>2, <1>3, RowLasts DEF keepRows, RowStep
<1>4. UsedLasts'
  <2>1. ASSUME NEW k \in 1..minted PROVE used'[k] \in 0..now' /\ Lasts(k, used[k])'
    <3>1. PICK u : u = used[k]
      OBVIOUS
    <3>2. u \in 0..now /\ Lasts(k, u)
      BY <3>1 DEF Uses, UsedLasts
    <3>3. Lasts(k, u)'
      BY <1>3, <3>2
    <3> QED BY <1>1, <1>2, <3>1, <3>2, <3>3 DEF Lasts, keepRows
  <2> QED BY <1>1, <2>1 DEF UsedLasts, keepRows
<1>5. \A c \in Clients : task'[c] = task[c] \/ task'[c] = Rest
  BY DEF Tick, EditByHand, Restart
<1>6. Quick'
  <2>1. CASE Tick
    <3>1. ASSUME NEW c \in Clients, task[c].at # "rest"
          PROVE  task[c].now <= now' /\ now' <= task[c].now + 1
      BY <1>2, <2>1, <3>1 DEF Tick
    <3> QED BY <2>1, <3>1 DEF Tick, Quick
  <2>2. CASE EditByHand \/ Restart
    BY <1>5, <2>2 DEF EditByHand, Restart, Uses, Quick, Rest
  <2> QED BY <2>1, <2>2
<1>7. SeenLasts'
  <2>1. ASSUME NEW d \in Clients, Sees(task'[d]) PROVE Lasts(task[d].token, task[d].now)'
    <3>1. task'[d] = task[d] /\ Sees(task[d])
      BY <1>5, <2>1 DEF Rest, Sees
    <3>2. PICK k, u : k = task[d].token /\ u = task[d].now
      OBVIOUS
    <3>3. k \in 1..minted /\ Lasts(k, u)
      BY <3>1, <3>2 DEF Sees, IInv, HandsFit, Hand, WithToken, Uses, SeenLasts
    <3>4. u \in 0..now
      BY <3>1, <3>2, InHand DEF Sees, Uses, Quick
    <3>5. Lasts(k, u)'
      BY <1>3, <3>3, <3>4
    <3> QED BY <3>1, <3>2, <3>5 DEF Lasts
  <2> QED BY <2>1 DEF SeenLasts, Sees
<1> QED BY <1>4, <1>6, <1>7 DEF Uses
LEMMA UsesNext ==
    ASSUME TInv, TInv', IInv, Uses, [Next]_accountVars
    PROVE  Uses'
<1>1. CASE UNCHANGED accountVars
  BY <1>1 DEF accountVars, accountGhosts, Uses, Quick, UsedLasts, SeenLasts, Lasts, Sees
<1>2. ASSUME NEW c \in Clients, Step(c) PROVE Uses'
  BY <1>2, AskUses, LookUpUses, FindAccountUses, RenewUses, MintUses, HandlersUseNothing,
     RowsAreTakenAway DEF Step
<1> QED BY <1>1, <1>2, WorldUses DEF Next

-----------------------------------------------------------------------------
(* What a session was signed in with.                                      *)

LEMMA OthersStayByStep == ASSUME TInv, NEW c \in Clients, Step(c) PROVE OthersStay(c)
<1>1. CASE Ask(c)
  <2>1. \E h : Go(c, "gate", h)
    BY <1>1 DEF Ask
  <2> QED BY <2>1 DEF Go, OthersStay, TInv, TasksTyped
<1>2. CASE LookUpSession(c)
  <2>1. Done(c) \/ (\E where, h : Go(c, where, h))
    BY <1>2 DEF LookUpSession, AdmitNobody, Admit
  <2> QED BY <2>1 DEF Go, Done, OthersStay, TInv, TasksTyped
<1>3. CASE LogInMint(c)
  <2>1. \E h : Go(c, "purge", h)
    BY <1>3 DEF LogInMint
  <2> QED BY <2>1 DEF Go, OthersStay, TInv, TasksTyped
<1> QED BY <1>1, <1>2, <1>3, StepsGoBy DEF Step, GoesBy

\* What a row is worth, a step that leaves its account alone does not change: a
\* change at work that is over has ended the rows, or is known not to have.
LEMMA WorthKeeps ==
    ASSUME NEW k, NEW n, NEW pass, Worth(k, n, pass), accounts'[n] = accounts[n],
           raced => raced', edited => edited', late.tokens \subseteq late'.tokens,
           unrevoked \subseteq unrevoked',
           \A d \in Clients : At(d, "revoke") /\ task[d].name = n =>
               task'[d] = task[d] \/ n \in unrevoked'
    PROVE  Worth(k, n, pass)'
BY DEF Worth, At

\* Rows stay with their account and their password, or go.
RowsStay == \A k \in Tokens : sessions'[k] # None =>
                /\ sessions[k] # None
                /\ sessions'[k].user = sessions[k].user /\ sessions'[k].pass = sessions[k].pass

LEMMA PasswordsKeep ==
    ASSUME SessionsHoldThePassword, RowsStay, keepFiles, edited' = edited,
           late.tokens \subseteq late'.tokens, unrevoked \subseteq unrevoked',
           NEW c \in Clients, OthersStay(c), ~At(c, "revoke") \/ task[c].name \in unrevoked'
    PROVE  SessionsHoldThePassword'
<1>1. ASSUME NEW k \in Tokens, sessions'[k] # None
      PROVE  Worth(k, sessions[k].user, sessions[k].pass)'
  <2>1. PICK n, pass : n = sessions[k].user /\ pass = sessions[k].pass
    OBVIOUS
  <2>2. sessions'[k].user = n /\ sessions'[k].pass = pass /\ Worth(k, n, pass)
    BY <1>1, <2>1, PasswordsByRow DEF RowsStay
  <2>3. Worth(k, n, pass)'
    BY <2>2, WorthKeeps DEF keepFiles, OthersStay
  <2> QED BY <2>2, <2>3 DEF Worth
<1> QED BY <1>1, PasswordsByRow DEF SessionsHoldThePassword, Worth

\* Everybody who neither signs in nor writes an account.
LEMMA StepsKeepPasswords ==
    ASSUME TInv, TInv', SessionsHoldThePassword, NEW c \in Clients,
           \/ Ask(c) \/ Gate(c) \/ LookUpSession(c) \/ FindAccount(c) \/ Renew(c)
           \/ CreateLook(c) \/ CreateCheck(c)
           \/ PatchRead(c) \/ PatchCheck(c) \/ DeleteRead(c) \/ DeleteCheck(c)
           \/ LogInVerify(c) \/ Purge(c) \/ LogOut(c)
           \/ WriteNote(c) \/ AdoptLook(c) \/ Adopt(c) \/ Fail(c)
    PROVE  SessionsHoldThePassword'
<1>1. keepFiles /\ edited' = edited /\ unrevoked \subseteq unrevoked'
  BY DEF Ask, Gate, LookUpSession, FindAccount, Renew, CreateLook, CreateCheck, PatchRead,
         PatchCheck, DeleteRead, DeleteCheck, LogInVerify, Purge, LogOut, WriteNote, AdoptLook,
         Adopt, Fail, Interrupted, keepRest, Quiet
<1>2. late.tokens \subseteq late'.tokens
  <2>1. CASE UNCHANGED late
    BY <2>1
  <2>2. CASE \E S : late' = [late EXCEPT !.notes = S]
    BY <2>2 DEF TInv, NotesTyped
  <2>3. CASE WriteNote(c) \/ Adopt(c)
    BY <2>1, <2>2, <2>3 DEF WriteNote, Adopt
  <2> QED BY <2>1, <2>3 DEF Ask, Gate, LookUpSession, FindAccount, Renew, CreateLook, CreateCheck,
         PatchRead, PatchCheck, DeleteRead, DeleteCheck, LogInVerify, Purge, LogOut, AdoptLook,
         Fail, keepRest, Quiet
<1>3. ~At(c, "revoke") \/ task[c].name \in unrevoked'
  BY DEF Ask, Gate, LookUpSession, FindAccount, Renew, CreateLook, CreateCheck, PatchRead,
         PatchCheck, DeleteRead, DeleteCheck, LogInVerify, Purge, LogOut, WriteNote, AdoptLook,
         Adopt, Fail, Interrupted, At
<1>4. OthersStay(c)
  BY OthersStayByStep DEF Step
<1>5. RowsStay
  <2>1. CASE UNCHANGED sessions
    BY <2>1 DEF RowsStay
  <2>2. ASSUME NEW k, sessions' = [sessions EXCEPT ![k] = None] PROVE RowsStay
    BY <2>2 DEF RowsStay, TInv, RowsTyped
  <2>3. CASE Purge(c)
    BY <2>3 DEF RowsStay, Purge
  <2>4. CASE Renew(c)
    <3> DEFINE t == task[c]
    <3>1. t.token \in Tokens
      BY <2>4, TokensInHand DEF Renew, At, WithToken
    <3>2. CASE sessions' = [sessions EXCEPT ![t.token] = Renewed(@, t.seen, t.now)]
      <4>1. sessions[t.token] = None => sessions'[t.token] = None
        BY <3>1, <3>2 DEF Renewed, TInv, RowsTyped
      <4>2. ASSUME sessions[t.token] # None
            PROVE  /\ sessions'[t.token].user = sessions[t.token].user
                   /\ sessions'[t.token].pass = sessions[t.token].pass
        <5>1. sessions[t.token] \in Rows
          BY <3>1, <4>2 DEF TInv, RowsTyped
        <5>2. sessions'[t.token] = [sessions[t.token] EXCEPT !.expires = t.now + Lifetime]
          BY <3>1, <3>2, <4>2 DEF Renewed, TInv, RowsTyped
        <5> QED BY <5>1, <5>2 DEF Rows
      <4>3. \A k \in Tokens : k # t.token => sessions'[k] = sessions[k]
        BY <3>2 DEF TInv, RowsTyped
      <4> QED BY <4>1, <4>2, <4>3 DEF RowsStay
    <3> QED BY <2>1, <2>4, <3>2 DEF Renew
  <2>5. CASE LookUpSession(c) \/ FindAccount(c) \/ LogOut(c)
    BY <2>1, <2>2, <2>5 DEF LookUpSession, FindAccount, LogOut
  <2> QED BY <2>1, <2>3, <2>4, <2>5 DEF Ask, Gate, CreateLook, CreateCheck, PatchRead,
         PatchCheck, DeleteRead, DeleteCheck, LogInVerify, WriteNote, AdoptLook,
         Adopt, Fail, keepRows
<1> QED BY <1>1, <1>2, <1>3, <1>4, <1>5, PasswordsKeep

\* A change that gets that far leaves no row of its account.
LEMMA RevokeKeepsPasswords ==
    ASSUME TInv, SessionsHoldThePassword, NEW c \in Clients, Revoke(c)
    PROVE  SessionsHoldThePassword'
<1>1. keepFiles /\ UNCHANGED <<edited, late, unrevoked>> /\ OthersStay(c)
  BY OthersStayByStep DEF Revoke, keepRest, Quiet, Step
<1>2. ASSUME NEW k \in Tokens, sessions'[k] # None
      PROVE  Worth(k, sessions[k].user, sessions[k].pass)'
  <2>1. PICK n, pass : n = sessions[k].user /\ pass = sessions[k].pass
    OBVIOUS
  <2>2. sessions'[k] = sessions[k] /\ n # task[c].name /\ Worth(k, n, pass)
    BY <1>2, <2>1, PasswordsByRow DEF Revoke, Revoked
  <2>3. Worth(k, n, pass)'
    BY <1>1, <2>2, WorthKeeps DEF keepFiles, OthersStay
  <2> QED BY <2>1, <2>2, <2>3 DEF Worth
<1> QED BY <1>2, PasswordsByRow DEF SessionsHoldThePassword, Worth
\* A write to one account leaves what the rows of the others are worth, and the
\* rows themselves; those of this account it keeps worth what they are, or says
\* why not.
LEMMA WriteKeepsPasswords ==
    ASSUME TInv, SessionsHoldThePassword, NEW c \in Clients, OthersStay(c), ~At(c, "revoke"),
           keepRows, UNCHANGED <<edited, late, unrevoked>>, raced => raced',
           \A n \in Names \ {task[c].name} : accounts'[n] = accounts[n],
           \/ raced' \/ (At(c, "revoke")' /\ task'[c].name = task[c].name)
           \/ accounts'[task[c].name] = accounts[task[c].name]
           \/ ~IsAccount(accounts[task[c].name])
           \/ /\ IsAccount(accounts'[task[c].name])
              /\ accounts'[task[c].name].pass = accounts[task[c].name].pass
    PROVE  SessionsHoldThePassword'
<1>1. ASSUME NEW k \in Tokens, sessions'[k] # None
      PROVE  Worth(k, sessions[k].user, sessions[k].pass)'
  <2>1. PICK n, pass : n = sessions[k].user /\ pass = sessions[k].pass
    OBVIOUS
  <2>2. /\ sessions'[k] = sessions[k] /\ Worth(k, n, pass) /\ n \in Names
        /\ \A d \in Clients : At(d, "revoke") => task'[d] = task[d]
    BY <1>1, <2>1, PasswordsByRow DEF keepRows, TInv, RowsTyped, Rows, OthersStay
  <2>3. CASE accounts'[n] = accounts[n]
    <3>1. Worth(k, n, pass)'
      BY <2>2, <2>3, WorthKeeps
    <3> QED BY <2>1, <2>2, <3>1 DEF Worth
  <2>4. CASE accounts'[n] # accounts[n] /\ ~raced' /\ ~(At(c, "revoke")' /\ task'[c].name = n)
    <3>1. n = task[c].name
      BY <2>2, <2>4
    <3>2. \/ ~IsAccount(accounts[n])
          \/ IsAccount(accounts'[n]) /\ accounts'[n].pass = accounts[n].pass
      BY <2>4, <3>1
    <3>3. Worth(k, n, pass)'
      BY <2>2, <3>2 DEF Worth, At, IsAccount
    <3> QED BY <2>1, <2>2, <3>3 DEF Worth
  <2>5. CASE raced' \/ (At(c, "revoke")' /\ task'[c].name = n)
    BY <2>1, <2>2, <2>5 DEF Worth
  <2> QED BY <2>3, <2>4, <2>5
<1> QED BY <1>1, PasswordsByRow DEF SessionsHoldThePassword, Worth

LEMMA WritesKeepPasswords ==
    ASSUME TInv, SessionsHoldThePassword, NEW c \in Clients,
           CreateWrite(c) \/ PatchWrite(c) \/ DeleteFile(c)
    PROVE  SessionsHoldThePassword'
<1> DEFINE t == task[c]
<1>1. keepRows /\ UNCHANGED <<edited, late, unrevoked>> /\ ~At(c, "revoke") /\ (raced => raced')
  BY DEF CreateWrite, PatchWrite, DeleteFile, keepRest, Quiet, At, keepFiles
<1>2. OthersStay(c)
  BY OthersStayByStep DEF Step
<1>3. t.name \in Names /\ t \in Tasks /\ TaskFits(t)
  BY InHand DEF CreateWrite, PatchWrite, DeleteFile, At, TaskFits
<1>4. \A n \in Names \ {t.name} : accounts'[n] = accounts[n]
  BY DEF CreateWrite, PatchWrite, DeleteFile, keepFiles, TInv, FilesTyped
<1>5. ASSUME Go(c, "revoke", t) PROVE At(c, "revoke")' /\ task'[c].name = t.name
  BY <1>3, <1>5 DEF Go, At, Tasks, TInv, TasksTyped
<1>6. CASE CreateWrite(c)
  <2>1. raced' \/ ~IsAccount(accounts[t.name])
    BY <1>6, AccountNone DEF CreateWrite, IsAccount
  <2> QED BY <1>1, <1>2, <1>4, <2>1, WriteKeepsPasswords
<1>7. CASE DeleteFile(c)
  <2>1. accounts' = accounts \/ Go(c, "revoke", t)
    BY <1>7 DEF DeleteFile, keepFiles
  <2> QED BY <1>1, <1>2, <1>4, <1>5, <2>1, WriteKeepsPasswords
<1>8. CASE PatchWrite(c)
  <2>1. CASE t.pass # None
    <3>1. Go(c, "revoke", t)
      BY <1>8, <2>1 DEF PatchWrite
    <3> QED BY <1>1, <1>2, <1>4, <1>5, <3>1, WriteKeepsPasswords
  <2>2. CASE t.pass = None /\ ~raced'
    <3>1. accounts[t.name] = t.seen /\ t.seen \in Files /\ t.role \in Roles \cup {None}
      BY <1>3, <1>8, <2>2, InHand DEF PatchWrite, At, TaskFits, Changing
    <3>2. accounts'[t.name] = [role |-> IF t.role = None THEN t.seen.role ELSE t.role,
                               pass |-> t.seen.pass]
      BY <1>3, <1>8, <2>2 DEF PatchWrite, TInv, FilesTyped
    <3>3. IsAccount(accounts'[t.name]) /\ accounts'[t.name].pass = accounts[t.name].pass
      BY <3>1, <3>2 DEF IsAccount, Files
    <3> QED BY <1>1, <1>2, <1>4, <3>3, WriteKeepsPasswords
  <2>3. CASE raced'
    BY <1>1, <1>2, <1>4, <2>3, WriteKeepsPasswords
  <2> QED BY <2>1, <2>2, <2>3
<1> QED BY <1>6, <1>7, <1>8

\* A new row is worth the password it was signed in with, or late.
LEMMA MintKeepsPasswords ==
    ASSUME TInv, SessionsHoldThePassword, NEW c \in Clients, LogInMint(c)
    PROVE  SessionsHoldThePassword'
<1> DEFINE n == minted + 1
           t == task[c]
           row == [user |-> t.name, expires |-> now + Lifetime, pass |-> t.pass]
<1>1. /\ keepFiles /\ UNCHANGED <<edited, unrevoked>> /\ ~At(c, "revoke")
      /\ sessions' = [sessions EXCEPT ![n] = row]
      /\ late.tokens \subseteq late'.tokens
      /\ (IsAccount(accounts[t.name]) /\ accounts[t.name].pass = t.pass) \/ n \in late'.tokens
  BY DEF LogInMint, keepRest, At, TInv, NotesTyped
<1>2. OthersStay(c)
  BY OthersStayByStep DEF Step
<1>3. n \in Tokens
  BY AccountBounds DEF LogInMint, TInv, RowsTyped, Tokens
<1>4. ASSUME NEW k \in Tokens, sessions'[k] # None
      PROVE  Worth(k, sessions[k].user, sessions[k].pass)'
  <2>1. CASE k # n
    <3>1. PICK m, pass : m = sessions[k].user /\ pass = sessions[k].pass
      OBVIOUS
    <3>2. sessions'[k] = sessions[k] /\ Worth(k, m, pass)
      BY <1>1, <1>4, <2>1, <3>1, PasswordsByRow DEF TInv, RowsTyped
    <3>3. Worth(k, m, pass)'
      BY <1>1, <1>2, <3>2, WorthKeeps DEF keepFiles, OthersStay
    <3> QED BY <3>1, <3>2, <3>3 DEF Worth
  <2>2. CASE k = n
    <3>1. sessions'[k].user = t.name /\ sessions'[k].pass = t.pass
      BY <1>1, <1>3, <2>2 DEF TInv, RowsTyped
    <3> QED BY <1>1, <2>2, <3>1 DEF Worth, keepFiles
  <2> QED BY <2>1, <2>2
<1> QED BY <1>4, PasswordsByRow DEF SessionsHoldThePassword, Worth

LEMMA WorldKeepsPasswords ==
    ASSUME TInv, SessionsHoldThePassword, Tick \/ EditByHand \/ Restart
    PROVE  SessionsHoldThePassword'
<1>1. CASE EditByHand
  BY <1>1 DEF EditByHand, SessionsHoldThePassword
<1>2. CASE Tick \/ Restart
  <2>1. keepFiles /\ keepRows /\ edited' = edited /\ unrevoked \subseteq unrevoked'
    BY <1>2 DEF Tick, Restart, Quiet
  <2>2. late.tokens \subseteq late'.tokens
    BY <1>2 DEF Tick, Restart, Quiet, TInv, NotesTyped
  <2>3. ASSUME NEW d \in Clients, At(d, "revoke") PROVE task'[d] = task[d] \/ task[d].name \in unrevoked'
    BY <1>2, <2>3 DEF Tick, Restart
  <2>4. ASSUME NEW k \in Tokens, sessions'[k] # None
        PROVE  Worth(k, sessions[k].user, sessions[k].pass)'
    <3>1. PICK n, pass : n = sessions[k].user /\ pass = sessions[k].pass
      OBVIOUS
    <3>2. sessions'[k] = sessions[k] /\ Worth(k, n, pass)
      BY <2>1, <2>4, <3>1, PasswordsByRow DEF keepRows
    <3>3. Worth(k, n, pass)'
      BY <2>1, <2>2, <2>3, <3>2, WorthKeeps DEF keepFiles
    <3> QED BY <3>1, <3>2, <3>3 DEF Worth
  <2> QED BY <2>4, PasswordsByRow DEF SessionsHoldThePassword, Worth
<1> QED BY <1>1, <1>2

LEMMA PasswordsNext ==
    ASSUME TInv, TInv', SessionsHoldThePassword, [Next]_accountVars
    PROVE  SessionsHoldThePassword'
<1>1. CASE UNCHANGED accountVars
  BY <1>1 DEF accountVars, accountGhosts, SessionsHoldThePassword, At
<1>2. ASSUME NEW c \in Clients, Step(c) PROVE SessionsHoldThePassword'
  BY <1>2, StepsKeepPasswords, RevokeKeepsPasswords, WritesKeepPasswords, MintKeepsPasswords DEF Step
<1> QED BY <1>1, <1>2, WorldKeepsPasswords DEF Next

LEMMA SInit == ASSUME Init PROVE Uses /\ SessionsHoldThePassword
<1>1. PICK n \in 0..MaxSignIns : \E holder \in [1..n -> There] :
        /\ minted = n
        /\ sessions = [t \in Tokens |-> IF t > n THEN None ELSE
              [user |-> holder[t], expires |-> Lifetime, pass |-> accounts[holder[t]].pass]]
  BY DEF Init
<1>2. PICK holder \in [1..n -> There] :
        /\ minted = n
        /\ sessions = [t \in Tokens |-> IF t > n THEN None ELSE
              [user |-> holder[t], expires |-> Lifetime, pass |-> accounts[holder[t]].pass]]
  BY <1>1
<1>3. n \in Nat /\ 1..n \subseteq Tokens /\ now = 0 /\ Lifetime \in Nat /\ RenewAfter \in Nat
  BY AccountBounds DEF Tokens, Init
<1>4. ASSUME NEW k \in Tokens, sessions[k] # None
      PROVE  /\ k \in 1..n /\ sessions[k].expires = Lifetime
             /\ sessions[k].user = holder[k] /\ sessions[k].pass = accounts[holder[k]].pass
  BY <1>2, <1>4 DEF Tokens
<1>5. Quick /\ SeenLasts
  BY DEF Init, Quick, SeenLasts, Sees, Rest
<1>6. UsedLasts
  <2>1. ASSUME NEW k \in 1..minted PROVE used[k] \in 0..now /\ Lasts(k, used[k])
    <3>1. k \in Tokens /\ used[k] = 0 /\ k \in 1..n /\ ~(k > n)
      BY <1>2, <1>3 DEF Init
    <3>2. sessions[k] = [user |-> holder[k], expires |-> Lifetime, pass |-> accounts[holder[k]].pass]
      BY <1>2, <3>1
    <3>3. sessions[k] # None /\ sessions[k].expires = Lifetime
      <4>1. holder[k] \in Names /\ accounts[holder[k]] # None
        BY <3>1 DEF There
      <4>2. accounts[holder[k]] \in [role : Roles, pass : Passwords]
        BY <4>1, AccountStarts DEF Init
      <4>3. Lifetime \in 0..MaxNow + Lifetime
        BY AccountBounds
      <4>4. sessions[k] \in Rows
        BY <3>2, <4>1, <4>2, <4>3 DEF Rows
      <4> QED BY <3>2, <4>4, AccountNone
    <3> QED BY <1>3, <3>1, <3>3 DEF Lasts
  <2> QED BY <2>1 DEF UsedLasts
<1>7. SessionsHoldThePassword
  <2>1. ASSUME NEW k \in Tokens, sessions[k] # None
        PROVE  Worth(k, sessions[k].user, sessions[k].pass)
    <3>1. holder[k] \in There
      BY <1>4, <2>1
    <3>2. accounts[holder[k]] \in [role : Roles, pass : Passwords]
      BY <3>1, AccountStarts DEF Init, There
    <3>3. IsAccount(accounts[holder[k]])
      BY <3>2 DEF IsAccount, Files
    <3> QED BY <1>4, <2>1, <3>3 DEF Worth
  <2> QED BY <2>1, PasswordsByRow
<1> QED BY <1>5, <1>6, <1>7 DEF Uses

\* A session is worth its account's password, but for what was late, was
\* interrupted, raced or was written by hand; and whoever keeps using one is not
\* signed out, whatever else renews, purges and looks at the same time.
THEOREM SessionsHold == Spec => []SessionsAreSound
<1>1. Init => SInv
  BY InitHolds, TInit, SInit DEF SInv
<1>2. SInv /\ [Next]_accountVars => SInv'
  BY StepKeeps, TNext, UsesNext, PasswordsNext DEF SInv
<1>3. SInv => SessionsAreSound
  BY UsesKeepSessions DEF SInv, SessionsAreSound
<1> QED BY <1>1, <1>2, <1>3, PTL DEF Spec
-----------------------------------------------------------------------------
(* Notes and whose they are.                                               *)
(*                                                                         *)
(* While somebody is adopting, what is nobody's is what is left to hand    *)
(* over, and what was noted by a request that found the wiki open and was  *)
(* late.  That the first account is the one that adopts needs that no      *)
(* other account is made in a wiki that has none (SecondsFit).             *)

Adopting(d) ==
    \/ task[d].at = "adopt"
    \/ task[d].at = "adopting" /\ Unowned \subseteq late.notes \cup task[d].todo

NInv ==
    \/ There = {} \/ edited \/ raced \/ unadopted
    \/ Unowned \subseteq late.notes
    \/ \E d \in Clients : Adopting(d)

\* Whose a note is, and which there are.
LEMMA NotesAre ==
    ASSUME TInv
    PROVE  /\ owner \in [Notes -> Names \cup {None}] /\ noted \subseteq Notes
           /\ late.notes \subseteq Notes /\ None \notin Names
           /\ late \in [tokens : SUBSET Tokens, notes : SUBSET Notes]
BY AccountNone DEF TInv, NotesTyped

\* A step that is not about notes, by a request that adopts none.
LEMMA NotesFrame ==
    ASSUME NInv, keepNotes, late'.notes = late.notes,
           There' \subseteq There \/ raced', edited => edited', raced => raced',
           unadopted => unadopted',
           NEW c \in Clients, OthersStay(c), task[c].at \notin {"adopt", "adopting"} \/ unadopted'
    PROVE  NInv' /\ OwnersAreKept
<1>1. Unowned' = Unowned
  BY DEF keepNotes, Unowned
<1>2. ASSUME NEW d \in Clients, Adopting(d), d # c PROVE Adopting(d)'
  BY <1>1, <1>2 DEF Adopting, OthersStay
<1>3. OwnersAreKept
  BY DEF keepNotes, OwnersAreKept
<1>4. NInv'
  BY <1>1, <1>2 DEF NInv, Adopting
<1> QED BY <1>3, <1>4

\* The steps that leave the accounts that are there, and the notes.
LEMMA StepsKeepNotes ==
    ASSUME TInv, NInv, NEW c \in Clients,
           \/ Ask(c) \/ Gate(c) \/ LookUpSession(c) \/ FindAccount(c) \/ Renew(c)
           \/ CreateLook(c) \/ CreateCheck(c)
           \/ PatchRead(c) \/ PatchCheck(c) \/ PatchWrite(c)
           \/ DeleteRead(c) \/ DeleteCheck(c) \/ DeleteFile(c) \/ Revoke(c)
           \/ LogInVerify(c) \/ LogInMint(c) \/ Purge(c) \/ LogOut(c) \/ Fail(c)
    PROVE  NInv' /\ OwnersAreKept
<1>1. keepNotes /\ edited' = edited /\ (raced => raced') /\ (unadopted => unadopted')
  <2> USE DEF Ask, Gate, LookUpSession, FindAccount, Renew, CreateLook, CreateCheck, PatchRead,
         PatchCheck, PatchWrite, DeleteRead, DeleteCheck, DeleteFile, Revoke, LogInVerify,
         LogInMint, Purge, LogOut, Fail, Interrupted, keepRest, Quiet, keepFiles
  <2>1. keepNotes /\ edited' = edited
    OBVIOUS
  <2>2. raced => raced'
    OBVIOUS
  <2>3. unadopted => unadopted'
    OBVIOUS
  <2> QED BY <2>1, <2>2, <2>3
<1>2. late'.notes = late.notes
  <2>1. CASE UNCHANGED late
    BY <2>1
  <2>2. CASE LogInMint(c)
    BY <2>2, NotesAre DEF LogInMint
  <2> QED BY <2>1, <2>2 DEF Ask, Gate, LookUpSession, FindAccount, Renew, CreateLook, CreateCheck,
         PatchRead, PatchCheck, PatchWrite, DeleteRead, DeleteCheck, DeleteFile, Revoke, LogInVerify,
         Purge, LogOut, Fail, keepRest, Quiet
<1>3. task[c].at \notin {"adopt", "adopting"} \/ unadopted'
  BY DEF Ask, Gate, LookUpSession, FindAccount, Renew, CreateLook, CreateCheck, PatchRead,
         PatchCheck, PatchWrite, DeleteRead, DeleteCheck, DeleteFile, Revoke, LogInVerify,
         LogInMint, Purge, LogOut, Fail, Interrupted, At
<1>4. OthersStay(c)
  BY OthersStayByStep DEF Step
<1>5. CASE keepFiles
  <2>1. There' = There
    BY <1>5 DEF keepFiles, There
  <2> QED BY <1>1, <1>2, <1>3, <1>4, <2>1, NotesFrame
<1>6. CASE PatchWrite(c) /\ ~raced'
  <2> DEFINE t == task[c]
  <2>1. t.name \in Names /\ t.seen \in Files
    BY <1>6, InHand DEF PatchWrite, At, TaskFits, Changing
  <2>2. accounts[t.name] = t.seen
    BY <1>6 DEF PatchWrite
  <2>3. PICK file \in Files : accounts' = [accounts EXCEPT ![t.name] = file]
    <3>1. t.role \in Roles \cup {None} /\ t.pass \in Passwords \cup {None}
      BY InHand
    <3>2. [role |-> IF t.role = None THEN t.seen.role ELSE t.role,
           pass |-> IF t.pass = None THEN t.seen.pass ELSE t.pass] \in Files
      BY <2>1, <3>1 DEF Files
    <3> QED BY <1>6, <3>2 DEF PatchWrite
  <2>4. There' = There
    BY <2>1, <2>2, <2>3, AccountNone DEF There, TInv, FilesTyped
  <2> QED BY <1>1, <1>2, <1>3, <1>4, <2>4, NotesFrame
<1>7. CASE raced'
  BY <1>1, <1>2, <1>3, <1>4, <1>7, NotesFrame
<1>8. CASE DeleteFile(c) /\ ~keepFiles
  <2>1. accounts' = [accounts EXCEPT ![task[c].name] = None]
    BY <1>8 DEF DeleteFile
  <2>2. There' \subseteq There
    BY <2>1 DEF There, TInv, FilesTyped
  <2> QED BY <1>1, <1>2, <1>3, <1>4, <2>2, NotesFrame
<1> QED BY <1>5, <1>6, <1>7, <1>8 DEF Ask, Gate, LookUpSession, FindAccount, Renew, CreateLook,
         CreateCheck, PatchRead, PatchCheck, DeleteRead, DeleteCheck, Revoke, LogInVerify,
         LogInMint, Purge, LogOut, Fail
\* The first account adopts; another one is not made in a wiki without any.
LEMMA CreateKeepsNotes ==
    ASSUME TInv, AInv, NInv, NEW c \in Clients, CreateWrite(c)
    PROVE  NInv' /\ OwnersAreKept
<1> DEFINE t == task[c]
<1>1. /\ keepNotes /\ UNCHANGED <<edited, late, unadopted>> /\ (raced => raced')
      /\ t.at = "create write"
  BY DEF CreateWrite, keepRest, Quiet, At
<1>2. OthersStay(c)
  BY OthersStayByStep DEF Step
<1>3. CASE t.boot
  <2>1. Go(c, "adopt", t) /\ t \in Tasks
    BY <1>3, InHand DEF CreateWrite
  <2>2. task'[c].at = "adopt"
    BY <2>1, GoesOn DEF Tasks
  <2> QED BY <1>1, <2>2 DEF NInv, Adopting, OwnersAreKept, keepNotes
<1>4. CASE ~t.boot /\ ~raced' /\ ~edited
  <2>1. There # {}
    BY <1>1, <1>4 DEF AInv, SecondsFit, Second, Creating, Excused
  <2>2. CASE unadopted
    BY <1>1, <2>2 DEF NInv, OwnersAreKept, keepNotes
  <2>3. CASE Unowned \subseteq late.notes
    BY <1>1, <2>3 DEF NInv, OwnersAreKept, keepNotes, Unowned
  <2>4. ASSUME NEW d \in Clients, Adopting(d) PROVE NInv' /\ OwnersAreKept
    <3>1. task'[d] = task[d]
      BY <1>1, <1>2, <2>4 DEF Adopting, OthersStay
    <3>2. Unowned' = Unowned /\ late' = late
      BY <1>1 DEF keepNotes, Unowned
    <3>3. Adopting(d)'
      BY <2>4, <3>1, <3>2 DEF Adopting
    <3> QED BY <1>1, <3>3 DEF NInv, OwnersAreKept, keepNotes
  <2> QED BY <1>1, <1>4, <2>1, <2>2, <2>3, <2>4 DEF NInv
<1>5. CASE raced' \/ edited
  BY <1>1, <1>5 DEF NInv, OwnersAreKept, keepNotes
<1> QED BY <1>3, <1>4, <1>5

\* A note has an owner, or it is the open wiki's, or late.
LEMMA WriteKeepsNotes ==
    ASSUME TInv, NInv, NEW c \in Clients, WriteNote(c)
    PROVE  NInv' /\ OwnersAreKept
<1> DEFINE t == task[c]
           new == CHOOSE r \in Notes \ noted : \A s \in Notes \ noted : r <= s
<1>1. /\ keepFiles /\ UNCHANGED <<edited, unadopted>> /\ t.at = "note"
      /\ There' = There
  BY DEF WriteNote, keepRest, At, keepFiles, There
<1>2. OthersStay(c)
  BY OthersStayByStep DEF Step
<1>3. CASE keepNotes /\ UNCHANGED late
  BY <1>1, <1>2, <1>3, NotesFrame DEF keepFiles
<1>4. CASE ~(keepNotes /\ UNCHANGED late)
  <2>1. /\ noted # Notes /\ t.viewer.kind # "anonymous"
        /\ noted' = noted \cup {new} /\ owner' = [owner EXCEPT ![new] = t.viewer.name]
        /\ late' = IF t.viewer.kind = "open" /\ There # {}
                   THEN [late EXCEPT !.notes = @ \cup {new}] ELSE late
    BY <1>4 DEF WriteNote
  <2>2. new \in Notes \ noted
    <3>1. Notes \ noted # {}
      BY <2>1, NotesAre
    <3>2. Notes \ noted \in SUBSET Nat
      BY DEF Notes
    <3>3. \E r \in Notes \ noted : \A s \in Notes \ noted : r <= s
      BY <3>1, <3>2, LeastNote
    <3> QED BY <3>3
  <2>3. t.viewer.kind = "account" => t.viewer.name # None
    BY InHand, NotesAre DEF Known
  <2>4. t.viewer.kind \in {"open", "account"}
    BY <2>1, InHand DEF Viewers
  <2> HIDE DEF new
  <2>5. /\ Unowned' \subseteq Unowned \cup {new} /\ late.notes \subseteq late'.notes
        /\ t.viewer.kind = "account" => Unowned' \subseteq Unowned
        /\ t.viewer.kind = "open" /\ There # {} => new \in late'.notes
    <3>1. owner'[new] = t.viewer.name /\ \A r \in noted : owner'[r] = owner[r]
      BY <2>1, <2>2, NotesAre
    <3>2. Unowned' \subseteq Unowned \cup {new}
      BY <2>1, <3>1 DEF Unowned
    <3>3. t.viewer.kind = "account" => Unowned' \subseteq Unowned
      BY <2>1, <2>3, <3>1 DEF Unowned
    <3>4. late.notes \subseteq late'.notes /\ (t.viewer.kind = "open" /\ There # {} => new \in late'.notes)
      BY <2>1, NotesAre
    <3> QED BY <3>2, <3>3, <3>4
  <2>6. OwnersAreKept
    BY <2>1, <2>2, NotesAre DEF OwnersAreKept
  <2>7. CASE There = {} \/ edited \/ raced \/ unadopted
    BY <1>1, <2>6, <2>7 DEF NInv, keepFiles
  <2>8. CASE There # {}
    <3>1. Unowned' \subseteq Unowned \cup late'.notes
      BY <2>4, <2>5, <2>8
    <3>2. CASE Unowned \subseteq late.notes
      BY <2>5, <2>6, <3>1, <3>2 DEF NInv
    <3>3. ASSUME NEW d \in Clients, Adopting(d) PROVE NInv'
      <4>1. task'[d] = task[d]
        BY <1>1, <1>2, <3>3 DEF Adopting, OthersStay
      <4>2. Adopting(d)'
        BY <2>5, <3>1, <3>3, <4>1 DEF Adopting
      <4> QED BY <4>2 DEF NInv
    <3> QED BY <2>6, <2>7, <2>8, <3>2, <3>3 DEF NInv
  <2> QED BY <2>6, <2>7, <2>8
<1> QED BY <1>3, <1>4

\* Looking whom they belong to, and handing them over one by one.
LEMMA AdoptKeepsNotes ==
    ASSUME TInv, NInv, NEW c \in Clients, AdoptLook(c) \/ Adopt(c)
    PROVE  NInv' /\ OwnersAreKept
<1> DEFINE t == task[c]
<1>1. /\ keepFiles /\ UNCHANGED <<edited, noted>> /\ t \in Tasks /\ TaskFits(t)
      /\ (unadopted => unadopted') /\ There' = There /\ raced' = raced
  <2>1. keepFiles /\ UNCHANGED <<edited, noted>>
    BY DEF AdoptLook, Adopt, keepRest, keepNotes
  <2>2. unadopted => unadopted'
    BY DEF AdoptLook, Adopt
  <2> QED BY <2>1, <2>2, InHand DEF keepFiles, There
<1>2. OthersStay(c)
  BY OthersStayByStep DEF Step
<1>3. CASE AdoptLook(c)
  <2>1. Unowned' = Unowned /\ OwnersAreKept /\ late' = late
    BY <1>3 DEF AdoptLook, keepNotes, Unowned, OwnersAreKept
  <2>2. CASE Unowned = {} \/ unadopted'
    BY <2>1, <2>2 DEF NInv
  <2>3. CASE Go(c, "adopting", [t EXCEPT !.todo = Unowned, !.name = Heir(c)])
    <3>1. task'[c].at = "adopting" /\ task'[c].todo = Unowned
      BY <1>1, <2>3 DEF Go, Tasks, TInv, TasksTyped
    <3>2. Adopting(c)'
      BY <2>1, <3>1 DEF Adopting
    <3> QED BY <2>1, <3>2 DEF NInv
  <2> QED BY <1>3, <2>2, <2>3 DEF AdoptLook
<1>4. CASE Adopt(c) /\ t.todo = {}
  <2>1. Unowned' = Unowned /\ OwnersAreKept /\ late' = late
    BY <1>4 DEF Adopt, Unowned, OwnersAreKept
  <2>2. CASE Unowned \subseteq late.notes
    BY <2>1, <2>2 DEF NInv
  <2>3. ASSUME NEW d \in Clients \ {c}, Adopting(d) PROVE NInv'
    <3>1. Adopting(d)'
      BY <1>2, <2>1, <2>3 DEF Adopting, OthersStay
    <3> QED BY <3>1 DEF NInv
  <2>4. CASE Adopting(c)
    BY <1>4, <2>2, <2>4 DEF Adopting, Adopt, At, NInv
  <2> QED BY <1>1, <2>1, <2>2, <2>3, <2>4 DEF NInv
<1>5. CASE Adopt(c) /\ t.todo # {}
  <2>1. PICK r \in t.todo : /\ owner' = [owner EXCEPT ![r] = Handed(@, t.name)]
                            /\ late' = [late EXCEPT !.notes = @ \ {r}]
                            /\ Go(c, "adopting", [t EXCEPT !.todo = @ \ {r}])
    BY <1>5 DEF Adopt
  <2>2. r \in Notes /\ t.name \in Names /\ t.at = "adopting"
    BY <1>1, <1>5, InHand DEF Adopt, At, TaskFits
  <2>3. /\ owner'[r] # None /\ (owner[r] # None => owner'[r] = owner[r])
        /\ \A s \in Notes \ {r} : owner'[s] = owner[s]
    BY <2>1, <2>2, NotesAre DEF Handed
  <2>4. Unowned' = Unowned \ {r} /\ OwnersAreKept
    BY <1>1, <2>3, NotesAre DEF Unowned, OwnersAreKept
  <2>5. late'.notes = late.notes \ {r}
    BY <2>1, NotesAre
  <2>6. task'[c].at = "adopting" /\ task'[c].todo = t.todo \ {r}
    BY <1>1, <2>1 DEF Go, Tasks, TInv, TasksTyped
  <2>7. CASE Unowned \subseteq late.notes
    BY <2>4, <2>5, <2>7 DEF NInv
  <2>8. ASSUME NEW d \in Clients, Adopting(d) PROVE Adopting(d)'
    <3>1. CASE d = c
      BY <2>2, <2>4, <2>5, <2>6, <2>8, <3>1 DEF Adopting
    <3>2. CASE d # c
      BY <1>2, <2>4, <2>5, <2>8, <3>2 DEF Adopting, OthersStay
    <3> QED BY <3>1, <3>2
  <2> QED BY <1>1, <2>4, <2>7, <2>8 DEF NInv
<1> QED BY <1>3, <1>4, <1>5

\* A start hands everything over to the only account there is, or as much as it gets to.
LEMMA WorldKeepsNotes ==
    ASSUME TInv, NInv, Tick \/ EditByHand \/ Restart
    PROVE  NInv' /\ OwnersAreKept
<1>1. CASE Tick
  BY <1>1 DEF Tick, keepFiles, keepNotes, Quiet, NInv, Adopting, There, Unowned, OwnersAreKept
<1>2. CASE EditByHand
  BY <1>2 DEF EditByHand, keepNotes, NInv, OwnersAreKept
<1>3. CASE Restart /\ Cardinality(There) = 1
  <2>1. PICK taken \in SUBSET Unowned :
             /\ owner' = [r \in Notes |-> IF r \in taken THEN CHOOSE n \in Names : n \in There ELSE owner[r]]
             /\ noted' = noted /\ unadopted' = (taken # Unowned)
    BY <1>3 DEF Restart
  <2>2. PICK heir \in Names : owner' = [r \in Notes |-> IF r \in taken THEN heir ELSE owner[r]]
    BY <1>3, <2>1, HeirIsThere
  <2>3. taken = Unowned => Unowned' = {}
    BY <2>1, <2>2, NotesAre DEF Unowned
  <2>4. OwnersAreKept
    BY <2>2, NotesAre DEF OwnersAreKept, Unowned
  <2> QED BY <2>1, <2>3, <2>4 DEF NInv
<1>4. CASE Restart /\ Cardinality(There) # 1
  <2>1. /\ keepFiles /\ UNCHANGED <<owner, late, noted, edited>>
        /\ unadopted' = (unadopted \/ \E c \in Clients : task[c].at \in {"adopt", "adopting"})
    BY <1>4 DEF Restart
  <2>2. (\E d \in Clients : Adopting(d)) => unadopted'
    BY <2>1 DEF Adopting
  <2>3. There' = There /\ Unowned' = Unowned /\ raced' = raced /\ OwnersAreKept
    BY <2>1 DEF There, Unowned, keepFiles, OwnersAreKept
  <2> QED BY <2>1, <2>2, <2>3 DEF NInv
<1> QED BY <1>1, <1>2, <1>3, <1>4

LEMMA NotesNext ==
    ASSUME TInv, AInv, NInv, [Next]_accountVars
    PROVE  NInv' /\ (accountVars' # accountVars => OwnersAreKept)
<1>1. CASE UNCHANGED accountVars
  BY <1>1 DEF accountVars, accountGhosts, NInv, Adopting, There, Unowned
<1>2. ASSUME NEW c \in Clients, Step(c) PROVE NInv' /\ OwnersAreKept
  BY <1>2, StepsKeepNotes, CreateKeepsNotes, WriteKeepsNotes, AdoptKeepsNotes DEF Step
<1> QED BY <1>1, <1>2, WorldKeepsNotes DEF Next

LEMMA NInit == ASSUME Init PROVE NInv
BY DEF Init, NInv, Unowned

\* Notes of the open wiki find the account that claimed it, and no note with an
\* owner is handed to another: for any number of clients, names and notes, in
\* whatever order they are noted, adopted and the server is started again.
THEOREM NotesKeepOwners ==
    ASSUME FirstAccountsHaveAnOwner PROVE Spec => NotesKeepTheirOwners
<1> DEFINE Inv == TInv /\ AInv /\ NInv
<1>1. Init => Inv
  BY TInit, AInitHolds, NInit
<1>2. Inv /\ [Next]_accountVars => Inv'
  BY TNext, ANext, NotesNext
<1>3. Inv /\ [Next]_accountVars => [NotesFindTheirOwner' /\ OwnersAreKept]_accountVars
  <2>1. NInv' => NotesFindTheirOwner'
    BY DEF NInv, NotesFindTheirOwner, Adopting
  <2> QED BY <2>1, NotesNext
<1> QED BY <1>1, <1>2, <1>3, PTL DEF Spec, NotesKeepTheirOwners
=============================================================================
