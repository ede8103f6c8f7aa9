----------------------------- MODULE MCSession -----------------------------
EXTENDS Session

CONSTANTS t1, t2, alice, bob

Of(u, state) == <<[user |-> u, family |-> 1, state |-> state]>>

(* No session, one under way, one that ended under the same cookie. *)
MCSessions == {[cookie |-> 0, tokens |-> Of(alice, "old")],
               [cookie |-> 1, tokens |-> Of(alice, "live")],
               [cookie |-> 1, tokens |-> Of(alice, "old")]}
=============================================================================
