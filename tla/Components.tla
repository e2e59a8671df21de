----------------------------- MODULE Components -----------------------------
(* ComponentsEngine of vibora/components/components.pyx: an index of the    *)
(* components of the application, which every connection clones, and an     *)
(* ephemeral one for the objects of the request it is handling.  An engine  *)
(* is a record of two sets of types; the constant Above gives the classes a *)
(* type is a subclass of, itself included.                                  *)
EXTENDS Naturals, FiniteSets

CONSTANT Above

NewEngine == [index |-> {}, ephemeral |-> {}]

(* add() refuses a second component of a type. *)
Provides(e, t) == t \in e.index

Add(e, t) == [e EXCEPT !.index = @ \cup {t}]

(* ephemeral_index[t] = ... of the connection, without a check. *)
AddEphemeral(e, t) == [e EXCEPT !.ephemeral = @ \cup {t}]

Clone(e) == [e EXCEPT !.ephemeral = {}]

Reset(e) == [e EXCEPT !.ephemeral = {}]

SearchType(index, t) == {k \in index : t \in Above[k]}

(* The types that may answer get(t): the type itself, or else the ones that *)
(* are subclasses of it.  More than one is an error, as is none.            *)
Get(e, t) ==
    IF t \in e.ephemeral \cup e.index THEN {t}
    ELSE SearchType(e.index, t) \cup SearchType(e.ephemeral, t)

(* What get(t) raises, if anything: two of one index are a ValueError.      *)
Failures(e, t) ==
    CASE Cardinality(Get(e, t)) = 1 -> {}
      [] \/ Cardinality(SearchType(e.index, t)) > 1
         \/ Cardinality(SearchType(e.ephemeral, t)) > 1 -> {"ValueError"}
      [] OTHER -> {"MissingComponent"}

=============================================================================
