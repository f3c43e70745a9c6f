--------------------------- MODULE MC_EasyValidation ---------------------------
(***************************************************************************)
(* Model-checking instance of EasyValidation: one value per option, the    *)
(* payload built by validation_create_account_payload.                     *)
(***************************************************************************)
EXTENDS EasyValidation

CharsExplored == {"a", "\"", "\\", "BS", "\n", "SOH", "1", "."}

OptionValues ==
  [o \in StrOptions |->
     IF o = "payload" THEN {CreateAccountPayload(Distinct(AccountFields))}
     ELSE {CStr(<<o>>)}]

\* Two response bodies: together they overflow the 3000-byte buffer.
BodySizes == [b \in {"b1", "b2"} |-> IF b = "b1" THEN 1200 ELSE 2000]
=============================================================================
