------------------------------- MODULE Caller -------------------------------
(* The caller of the library's sequential algorithms, which makes one call at *)
(* a time and looks at what it returns.                                       *)
VARIABLE call     \* the call in progress and what it has returned

Idle == [fn |-> "idle"]

Return(fns) == call.fn \in fns /\ call' = Idle
=============================================================================
