--------------------------- MODULE MCIdentityFile ---------------------------
(***************************************************************************)
(* Instances of IdentityFile for TLC.                                      *)
(***************************************************************************)
EXTENDS IdentityFile, TLC

CONSTANTS p1, p2, t1, t2, t3, i1, i2, n1

TwoProcesses == (t1 :> p1) @@ (t2 :> p1) @@ (t3 :> p2)

\* Made up from $USER, or at random when there is none.
EachItsOwn == (t1 :> i1) @@ (t2 :> i1) @@ (t3 :> i2)

Call(kind) == [kind |-> kind]
Resolve == Call("resolve")
Lift == [kind |-> "lift", to |-> 2]
Account == [kind |-> "account", name |-> n1]
Override == [kind |-> "override", id |-> i1]
Rename(drop) == [kind |-> "rename", id |-> i2, drop |-> drop]

\* The main threads share out the calls; a timer's thread makes those of the
\* first-run popup.
ByThread ==
  (t1 :> {Resolve, Call("count"), Call("confirm"), Override, Rename(TRUE)})
    @@ (t2 :> {Resolve, Call("print")})
    @@ (t3 :> {Resolve, Call("count"), Call("print"), Lift, Account, Rename(FALSE)})

=============================================================================
