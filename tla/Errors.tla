-------------------------------- MODULE Errors ---------------------------------
(***************************************************************************)
(* The shared error taxonomy (pureflow-core error.rs): an error is the     *)
(* family it belongs to and its text, and the conversions at the runtime's *)
(* boundary decide the family.  What the rest of the system reads off an   *)
(* error is its code, its visibility and its retry guidance.               *)
(***************************************************************************)
Error(family, text) == [family |-> family, text |-> text]

(* The constructors, and From for the two kinds of validation error.       *)
Identifier(err) == Error("identifier", err)
Capability(err) == Error("capability", err)
Execution(text) == Error("execution", text)
Cancelled(reason) == Error("cancellation", reason)
Lifecycle(text) == Error("lifecycle", text)
MetadataFailure(text) == Error("metadata", text)

Families == {"identifier", "capability", "execution", "cancellation", "lifecycle", "metadata"}
Validation == {"identifier", "capability"}

(* PureflowError::code and ErrorCode::as_str.                              *)
Code(err) ==
  CASE err.family = "identifier"   -> "CDT-VAL-001"
    [] err.family = "capability"   -> "CDT-VAL-002"
    [] err.family = "execution"    -> "CDT-EXEC-001"
    [] err.family = "cancellation" -> "CDT-CANCEL-001"
    [] err.family = "lifecycle"    -> "CDT-LIFE-001"
    [] err.family = "metadata"     -> "CDT-META-001"

Visibility(err) ==
  IF err.family \in Validation \cup {"cancellation"} THEN "user" ELSE "internal"

RetryDisposition(err) ==
  CASE err.family \in Validation -> "never"
    [] err.family = "cancellation" -> "safe"
    [] OTHER -> "unknown"

(* Display: the code, the family's fixed words, the text.                  *)
Message(err) == <<Code(err), err.family, err.text>>

(* From<JoinError>, From<mpsc::SendError>, From<mpsc::RecvError>,          *)
(* From<PortSendError> and From<PortRecvError>: a cancelled operation is a *)
(* cancellation, every other failure an execution failure.                 *)
FromBoundary(failure) ==
  IF failure = "cancelled" THEN Cancelled(failure) ELSE Execution(failure)
===============================================================================
