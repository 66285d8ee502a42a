----------------------------- MODULE MCAccounts -----------------------------
(***************************************************************************)
(* Two users with a name each, who send profiles that take the name of the *)
(* other, a new one, or none.                                              *)
(***************************************************************************)
EXTENDS Accounts

CONSTANTS r1, r2, u1, u2, t1, t2, ann, bob, x, y, z

MCStart == [u \in {u1, u2} |->
              IF u = u1 THEN [first_name |-> ann, username |-> x]
                        ELSE [first_name |-> ann, username |-> y]]

MCIdentities == {[telegram |-> t1, user |-> u1], [telegram |-> t2, user |-> u2]}

Register(t, f, n)   == [kind |-> "register", telegram |-> t, first_name |-> f, username |-> n, valid_url |-> TRUE]
Authenticate(t)     == [kind |-> "authenticate", telegram |-> t, first_name |-> ann, username |-> None, valid_url |-> TRUE]

MCInputs ==
  {Register(t1, ann, x), Register(t1, bob, y), Register(t1, ann, z), Register(t1, bob, None),
   Register(t2, ann, x), Register(t2, ann, z),
   [Register(t2, ann, y) EXCEPT !.valid_url = FALSE], Authenticate(t1)}

=============================================================================
