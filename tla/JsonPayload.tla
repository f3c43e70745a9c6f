----------------------------- MODULE JsonPayload -----------------------------
(***************************************************************************)
(* The JSON payload builders of lib/validation_json.c and                  *)
(* lib/validation_payroll_ceo.c: json_escape_string and the account,       *)
(* entity and CEO payroll templates, each written into a struct dynbuf     *)
(* with a size limit.                                                      *)
(*                                                                         *)
(* A C string is a record: null, or the sequence of its characters.  A    *)
(* character is a one-letter string, or a name for one that TLA+ cannot   *)
(* write ("BS" is \b, "SOH" is \x01).  A payload is the sequence of the   *)
(* Curl_dyn_add calls that made it: fixed JSON text is kept only as its   *)
(* byte count, and each escaped field keeps its characters.                *)
(*                                                                         *)
(* struct dynbuf is libcurl's (lib/dynbuf.c, not part of this repository).*)
(* Its behaviour is taken from there: an add that would make               *)
(* len + n + 1 exceed the limit frees the buffer and fails, and later adds *)
(* start again from empty.  Curl_dyn_ptr of a buffer never written is      *)
(* NULL.  The builders ignore every add's result.                          *)
(***************************************************************************)
EXTENDS Integers, Sequences, SequencesExt

CONSTANTS
  Chars,          \* input characters explored
  MaxLen,         \* longest input string explored
  EscapeLimit,    \* Curl_dyn_init(&buf, 1024) in json_escape_string
  PayloadLimit,   \* Curl_dyn_init(&buf, 2048) in the account and entity builders
  PayrollLimit    \* Curl_dyn_init(&buf, 4096) in the CEO payroll builder

CStr(s) == [null |-> FALSE, s |-> s]
NullStr == [null |-> TRUE, s |-> <<>>]

\* Byte values of the control characters in Chars' universe.
Code == "SOH" :> 1 @@ "BS" :> 8 @@ "\t" :> 9 @@ "\n" :> 10 @@ "\f" :> 12
        @@ "\r" :> 13 @@ "US" :> 31
HexDigits == <<"0", "1", "2", "3", "4", "5", "6", "7",
               "8", "9", "a", "b", "c", "d", "e", "f">>

\* msnprintf(tmp, sizeof(tmp), "\\u%04x", *p).
Hex4(n) == [i \in 1 .. 4 |-> HexDigits[((n \div 16^(4 - i)) % 16) + 1]]

-----------------------------------------------------------------------------
\* struct dynbuf: Curl_dyn_init, Curl_dyn_addn / Curl_dyn_add, Curl_dyn_ptr.
DynInit == [buf |-> <<>>, len |-> 0, alloc |-> FALSE]
DynAdd(d, items, n, limit) ==
  IF d.len + n + 1 > limit THEN DynInit
  ELSE [buf |-> d.buf \o items, len |-> d.len + n, alloc |-> TRUE]
DynPtr(d) == IF d.alloc THEN CStr(d.buf) ELSE NullStr
\* The buffer after the adds of a sequence of [items, n] records, in order,
\* from Curl_dyn_init (a function recursive in the index keeps TLC's
\* evaluation shallow for templates of some sixty adds).
DynAddAll(adds, limit) ==
  LET d[i \in 0 .. Len(adds)] ==
        IF i = 0 THEN DynInit
        ELSE DynAdd(d[i - 1], adds[i].items, adds[i].n, limit)
  IN d[Len(adds)]

\* The switch on *p of json_escape_string: what one input character adds.
EscapeChar(c) ==
  CASE c = "\"" -> <<"\\", "\"">>
    [] c = "\\" -> <<"\\", "\\">>
    [] c = "BS" -> <<"\\", "b">>
    [] c = "\f" -> <<"\\", "f">>
    [] c = "\n" -> <<"\\", "n">>
    [] c = "\r" -> <<"\\", "r">>
    [] c = "\t" -> <<"\\", "t">>
    [] c \in DOMAIN Code -> <<"\\", "u">> \o Hex4(Code[c])
    [] OTHER -> <<c>>

\* Mutant: the control-character escapes are written without the backslash
\* pair for \b (a dropped escape).
JsonEscapeNoBS(str) ==
  IF str.null THEN CStr(<<>>)
  ELSE DynPtr(DynAddAll(
         [i \in DOMAIN str.s |->
            LET e == IF str.s[i] = "BS" THEN <<"b">> ELSE EscapeChar(str.s[i])
            IN [items |-> e, n |-> Len(e)]], EscapeLimit))

\* json_escape_string: strdup("") for NULL, otherwise the escaped text,
\* which is NULL for "" (nothing was ever added).
JsonEscape(str) ==
  IF str.null THEN CStr(<<>>)
  ELSE DynPtr(DynAddAll(
         [i \in DOMAIN str.s |->
            [items |-> EscapeChar(str.s[i]), n |-> Len(EscapeChar(str.s[i]))]],
         EscapeLimit))

-----------------------------------------------------------------------------
(***************************************************************************)
(* The templates: one entry per Curl_dyn_add call, in order.  L(n) adds n *)
(* bytes of fixed JSON text; F(k, f, dflt) adds the escaped field f, or  *)
(* dflt when json_escape_string returned NULL, as the value of the JSON   *)
(* key k that the fixed text before it opens.  Only the payroll amount is     *)
(* written outside quotes.                                                  *)
(***************************************************************************)
L(n) == [key |-> "", field |-> "", len |-> n, dflt |-> <<>>]
F(k, f, dflt) == [key |-> k, field |-> f, len |-> 0, dflt |-> dflt]

\* Mutant: the clearing system id and its type are written into each
\* other's slots.
AccountTemplateSwapped ==
  << L(2), L(4), L(18), F("requestId", "request_id", <<>>), L(3), L(17), L(24),
     F("accountNumber", "account_number", <<>>), L(3), L(34), L(30), L(17),
     F("id", "clearing_system_id_type", <<>>), L(3), L(21),
     F("idType", "clearing_system_id", <<>>), L(2), L(10), L(8), L(7), L(16), L(22),
     L(29), L(29), L(33), L(8), L(6), L(4), L(1) >>

AccountTemplate ==
  << L(2), L(4), L(18), F("requestId", "request_id", <<>>), L(3), L(17), L(24),
     F("accountNumber", "account_number", <<>>), L(3), L(34), L(30), L(17),
     F("id", "clearing_system_id", <<>>), L(3), L(21),
     F("idType", "clearing_system_id_type", <<>>), L(2), L(10), L(8), L(7), L(16), L(22),
     L(29), L(29), L(33), L(8), L(6), L(4), L(1) >>

EntityTemplate ==
  << L(2), L(4), L(18), F("requestId", "request_id", <<>>), L(3), L(16), L(22), L(22),
     F("firstName", "first_name", <<>>), L(3), L(21), F("lastName", "last_name", <<>>), L(3), L(21),
     F("fullName", "full_name", <<>>), L(2), L(8), L(6), L(4), L(1) >>

PayrollCeoTemplate ==
  << L(2), L(4), L(18), F("requestId", "request_id", <<>>), L(3), L(17), L(24),
     F("accountNumber", "account_number", <<>>), L(3), L(34), L(30), L(17),
     F("id", "clearing_system_id", <<>>), L(3), L(21),
     F("idType", "clearing_system_id_type", <<>>), L(2), L(10), L(8), L(7), L(16), L(22),
     L(22), F("firstName", "first_name", <<>>), L(3), L(21), F("lastName", "last_name", <<>>), L(3),
     L(21), F("fullName", "full_name", <<>>), L(3), L(18), F("title", "ceo_title", <<>>), L(3),
     L(23), F("department", "ceo_department", <<>>), L(2), L(8), L(7), L(22), L(8), L(30),
     L(20), L(20), F("amount", "payroll_amount", <<"0", ".", "0", "0">>), L(2), L(23),
     F("currency", "payroll_currency", <<"U", "S", "D">>), L(2), L(10), L(8), L(6), L(4),
     L(1) >>

\* The request fields each builder escapes (escaped and freed whether used
\* or not).
AccountFields == {"account_number", "financial_institution_id",
                  "clearing_system_id", "clearing_system_id_type",
                  "entity_type", "request_id"}
EntityFields == {"entity_type", "first_name", "last_name", "full_name",
                 "postal_address", "identification", "request_id"}
PayrollCeoFields == {"request_id", "account_number", "financial_institution_id",
                     "clearing_system_id", "clearing_system_id_type",
                     "first_name", "last_name", "full_name", "payroll_amount",
                     "payroll_currency", "employer_name", "employer_id",
                     "ceo_title", "ceo_department"}

\* json_escape_string of lib/validation_payroll_ceo.c: a static copy of the
\* one in lib/validation_json.c, the same line for line.
PayrollJsonEscape(str) == JsonEscape(str)

\* A builder: esc holds every field escaped; then one dynbuf add per
\* template entry.  A segment of the result is the JSON key an add wrote the
\* value of ("" for fixed text) with the characters it wrote.
BuildPayload(tpl, esc, limit) ==
  LET Add(a) ==
        IF a.field = "" THEN [items |-> <<[key |-> "", chars |-> <<>>]>>, n |-> a.len]
        ELSE LET arg == IF esc[a.field].null THEN a.dflt ELSE esc[a.field].s
             IN [items |-> <<[key |-> a.key, chars |-> arg]>>, n |-> Len(arg)]
  IN DynPtr(DynAddAll([i \in DOMAIN tpl |-> Add(tpl[i])], limit))

\* validation_create_account_payload and validation_create_entity_payload
\* (NULL request: NULL), validation_create_payroll_ceo_payload.
CreateAccountPayload(req) ==
  BuildPayload(AccountTemplate, [f \in DOMAIN req |-> JsonEscape(req[f])], PayloadLimit)
CreateEntityPayload(req) ==
  BuildPayload(EntityTemplate, [f \in DOMAIN req |-> JsonEscape(req[f])], PayloadLimit)
CreatePayrollCeoPayload(req) ==
  BuildPayload(PayrollCeoTemplate, [f \in DOMAIN req |-> PayrollJsonEscape(req[f])],
               PayrollLimit)

-----------------------------------------------------------------------------
(***************************************************************************)
(* Reference definitions, from RFC 8259 rather than from the code.        *)
(***************************************************************************)
Invalid == <<"<invalid>">>
JsonShort == "\"" :> "\"" @@ "\\" :> "\\" @@ "/" :> "/" @@ "b" :> "BS"
             @@ "f" :> "\f" @@ "n" :> "\n" @@ "r" :> "\r" @@ "t" :> "\t"
HexValue(d) == CHOOSE i \in 0 .. 15 : HexDigits[i + 1] = d
IsHex(s) == \A i \in DOMAIN s : s[i] \in Range(HexDigits)
\* The character a \uXXXX escape stands for, among those Code names.
FromCode(s) ==
  LET n == HexValue(s[1]) * 4096 + HexValue(s[2]) * 256 + HexValue(s[3]) * 16
           + HexValue(s[4])
  IN IF \E c \in DOMAIN Code : Code[c] = n
       THEN <<CHOOSE c \in DOMAIN Code : Code[c] = n>> ELSE Invalid

\* The characters the contents of a JSON string denote (section 7), or
\* Invalid when they are not the contents of a JSON string.
RECURSIVE Unescape(_)
Unescape(o) ==
  IF o = <<>> THEN <<>>
  ELSE LET rest(k) == LET u == Unescape(SubSeq(o, k + 1, Len(o)))
                      IN IF u = Invalid THEN Invalid ELSE u
       IN CASE o[1] = "\\" /\ Len(o) >= 2 /\ o[2] \in DOMAIN JsonShort ->
                 LET r == rest(2) IN IF r = Invalid THEN Invalid ELSE <<JsonShort[o[2]]>> \o r
            [] o[1] = "\\" /\ Len(o) >= 6 /\ o[2] = "u" /\ IsHex(SubSeq(o, 3, 6)) ->
                 LET c == FromCode(SubSeq(o, 3, 6)) r == rest(6)
                 IN IF c = Invalid \/ r = Invalid THEN Invalid ELSE c \o r
            [] o[1] \in {"\\", "\""} \cup DOMAIN Code -> Invalid
            [] OTHER -> LET r == rest(1) IN IF r = Invalid THEN Invalid ELSE <<o[1]>> \o r

\* The request field each JSON key of the validation API carries.
Schema == "requestId" :> "request_id" @@ "accountNumber" :> "account_number"
          @@ "id" :> "clearing_system_id" @@ "idType" :> "clearing_system_id_type"
          @@ "firstName" :> "first_name" @@ "lastName" :> "last_name"
          @@ "fullName" :> "full_name" @@ "title" :> "ceo_title"
          @@ "department" :> "ceo_department" @@ "amount" :> "payroll_amount"
          @@ "currency" :> "payroll_currency"

-----------------------------------------------------------------------------
\* The strings explored: every string of Chars up to MaxLen, and NULL.
Inputs == BoundedSeq(Chars, MaxLen)
Specials == {NullStr} \cup {CStr(s) : s \in Inputs}

\* Requests: each field holds a value of its own ("account_number" holds
\* the one-character string <<"account_number">>), and one field at a time
\* is replaced by each explored string or NULL.
Distinct(fields) == [f \in fields |-> CStr(<<f>>)]
RequestsOf(fields) ==
  {Distinct(fields)} \cup
  {[Distinct(fields) EXCEPT ![f] = v] : f \in fields, v \in Specials}

\* The value segments of a built payload.
Slots(p) == SelectSeq(p.s, LAMBDA seg : seg.key # "")

-----------------------------------------------------------------------------
(* json_escape_string turns every string short enough for its 1024-byte   *)
(* buffer into the contents of a JSON string that denotes exactly that     *)
(* string: quotes, backslashes and every control character are escaped,  *)
(* and the \u escapes carry the right hex code.                            *)
EscapeInverts ==
  \A s \in Inputs : Unescape(JsonEscape(CStr(s)).s) = s

(* The three builders produce a payload with every template add present   *)
(* and each request field in its own slot: a non-empty field decodes to    *)
(* exactly its value, and a NULL or empty one to "" or the template's      *)
(* default ("0.00", "USD").                                                *)
BuildersCarryFields ==
  LET Builders == {<<1, AccountTemplate, AccountFields>>,
                   <<2, EntityTemplate, EntityFields>>,
                   <<3, PayrollCeoTemplate, PayrollCeoFields>>}
      Build(i, req) == CASE i = 1 -> CreateAccountPayload(req)
                         [] i = 2 -> CreateEntityPayload(req)
                         [] i = 3 -> CreatePayrollCeoPayload(req)
  IN
  \A b \in Builders : \A req \in RequestsOf(b[3]) :
    LET p == Build(b[1], req)
        tslots == SelectSeq(b[2], LAMBDA a : a.field # "")
    IN /\ ~p.null
       /\ Len(p.s) = Len(b[2])
       /\ \A i \in DOMAIN Slots(p) :
            LET seg == Slots(p)[i]
                v == req[Schema[seg.key]]
            IN IF v.s # <<>> THEN Unescape(seg.chars) = v.s
               ELSE Unescape(seg.chars) \in {<<>>, tslots[i].dflt}
=============================================================================
