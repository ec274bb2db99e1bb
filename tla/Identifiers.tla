----------------------------- MODULE Identifiers -------------------------------
(***************************************************************************)
(* Identifiers of workflows, executions, messages, nodes and ports         *)
(* (pureflow-types lib.rs).  A text is [name, len, kinds]: what tells it   *)
(* from other texts, its length in bytes, and the kinds of its characters  *)
(* ("space" for white space, line ends included, "control" for the other   *)
(* control characters).                                                    *)
(***************************************************************************)
EXTENDS Naturals

Texts == [name : Nat, len : Nat, kinds : SUBSET {"plain", "space", "control"}]

MAX_IDENTIFIER_LEN == 256

(* validate_identifier, in the order of its checks.                        *)
IdentifierError(text) ==
  IF text.len > MAX_IDENTIFIER_LEN
    THEN "too_long"
    ELSE IF text.kinds \subseteq {"space"}
    THEN "empty"
    ELSE IF "space" \in text.kinds
    THEN "whitespace"
    ELSE IF "control" \in text.kinds
    THEN "control"
    ELSE "none"

(* The text of an identifier: new, FromStr and TryFrom all validate.       *)
IsIdentifier(text) == IdentifierError(text) = "none"
Id(name) == [name |-> name, len |-> 1, kinds |-> {"plain"}]
===============================================================================
