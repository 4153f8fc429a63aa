------------------------------- MODULE Scopes -------------------------------
(***************************************************************************)
(* What middleware may leave in the scope of a request to tell who makes   *)
(* it: user, auth and a security context (core/context.py).  A person is   *)
(* [shape, ids, roles, tenant]: a mapping, a typed object, any object or a *)
(* text, with the names it goes by.                                        *)
(***************************************************************************)

NoOne == [shape |-> "none", ids |-> [f \in {} |-> ""], roles |-> {}, tenant |-> "none"]
Opaque == [NoOne EXCEPT !.shape = "object"]
Person(shape, ids, roles, tenant) == [shape |-> shape, ids |-> ids, roles |-> roles, tenant |-> tenant]
\* The person's name as an id: account records and the users of worker turns.
Named(name, roles) == Person("mapping", [f \in {"id"} |-> name], roles, "none")

\* A security context grants roles, each restriction narrows them unless its roles are None.
Unlimited == [limited |-> FALSE, roles |-> {}]
Limit(roles) == [limited |-> TRUE, roles |-> roles]
NoContext == [present |-> FALSE, roles |-> {}, restrictions |-> <<>>]
\* holder tells where a Principal is: around the user, or in the context beside it.
NoScope == [user |-> NoOne, auth |-> NoOne, context |-> NoContext, holder |-> "none",
            owner |-> "none", tenant |-> "none", state |-> "none"]

=============================================================================
