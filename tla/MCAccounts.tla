----------------------------- MODULE MCAccounts -----------------------------
(* An open wiki, one with an owner and a member, one with two owners. *)
EXTENDS Accounts, TLC

CONSTANTS ann, bob, p, q

Interchangeable == Permutations(Clients)

Holds(role, pass) == [role |-> role, pass |-> pass]
SmallWikis == {(ann :> a) @@ (bob :> b) :
    <<a, b>> \in {<<None, None>>,
                  <<Holds("owner", p), Holds("member", q)>>,
                  <<Holds("owner", p), Holds("owner", q)>>}}

SomeEdits == {[name |-> ann, file |-> None], [name |-> bob, file |-> Garbled]}

Want(op, name, role, pass) == [op |-> op, name |-> name, role |-> role, pass |-> pass]
SomeRequests ==
    {Want("create", ann, "member", p), Want("create", bob, None, q),
     Want("patch", ann, "member", None), Want("patch", ann, None, q),
     Want("patch", bob, "owner", None), Want("delete", ann, None, None), Want("delete", bob, None, None),
     Want("login", ann, None, p),
     Want("logout", ann, None, None), Want("note", ann, None, None)}
=============================================================================
