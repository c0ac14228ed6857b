-------------------------- MODULE MCClientSession --------------------------
(* ClientSession on small instances. *)
EXTENDS ClientSession

\* All calls in one tab, or each call in the tab of its name.
InOneTab == [o \in Op |-> FirstTab]
InOwnTab == [o \in Op |-> o]
=============================================================================
