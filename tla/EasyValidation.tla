---------------------------- MODULE EasyValidation ----------------------------
(***************************************************************************)
(* The easy-handle validation API of lib/validation.c: the per-handle      *)
(* struct validation_context that curl_easy_setopt_validation creates and  *)
(* fills, curl_easy_perform_validation with setup_validation_headers and   *)
(* validation_write_callback, and curl_easy_cleanup_validation.  One       *)
(* handle, driven by one caller, as in examples/validation_example.c.      *)
(*                                                                         *)
(* String options hold NULL or the value passed.  The payload a caller     *)
(* passes is one built by JsonPayload.  Heap ownership is counted: the     *)
(* strings strdup'd and not yet freed, and the curl_slist nodes appended   *)
(* and not yet freed.  A transfer delivers one response body through the   *)
(* write callback, or fails before any data.                               *)
(***************************************************************************)
EXTENDS Integers, Sequences, FiniteSets, JsonPayload

CONSTANTS
  Values,          \* Values[o]: the strings callers pass for string option o
  Bodies,          \* response bodies a server may send
  BodySize,        \* BodySize[b]: its length in bytes
  ResponseLimit,   \* DYN_DOH_RESPONSE, the response dynbuf's limit
  MaxHeaderNodes   \* bound on curl_slist nodes allocated over a behaviour

StrOptions == {"client_id", "program_id", "program_id_type", "endpoint_url",
               "payload"}
NULL == NullStr

ASSUME DOMAIN Values = StrOptions /\ BodySize \in [Bodies -> Nat]

VARIABLES
  ctx,           \* curl->req.validation_ctx (present = FALSE: NULL)
  liveStrings,   \* strdup'd strings not freed
  liveNodes      \* curl_slist nodes not freed

vars == <<ctx, liveStrings, liveNodes>>

Contexts == [str : [StrOptions -> UNION {Values[o] : o \in StrOptions} \cup {NULL}],
             headers : 0 .. 5,
             response : [buf : Seq(Bodies), len : Nat, alloc : BOOLEAN],
             present : BOOLEAN]

TypeOK ==
  /\ ctx \in Contexts
  /\ liveStrings \in 0 .. Cardinality(StrOptions)
  /\ liveNodes \in 0 .. MaxHeaderNodes

Init ==
  /\ ctx = [str |-> [o \in StrOptions |-> NULL], headers |-> 0,
            response |-> DynInit, present |-> FALSE]
  /\ liveStrings = 0
  /\ liveNodes = 0

\* validation_context_init on a calloc'd context; NoCtx is the NULL pointer.
NewContext == [str |-> [o \in StrOptions |-> NULL], headers |-> 0,
               response |-> DynInit, present |-> TRUE]
NoCtx == [NewContext EXCEPT !.present = FALSE]

\* The context curl_easy_setopt_validation works on (lines 116-125): the
\* handle's, or a new one.  A failed calloc returns before any change.
CtxOf == IF ctx = NoCtx THEN NewContext ELSE ctx

\* Mutant: the header count is one too many (Accept counted twice).
PerformCountOff(failAt, out) ==
  LET n == IF ctx.str["program_id_type"] # NULL THEN 6 ELSE 5
      added == IF failAt = 0 THEN n ELSE failAt - 1
  IN
  /\ ctx # NoCtx
  /\ ctx.str["endpoint_url"] # NULL /\ ctx.str["payload"] # NULL
  /\ ctx.str["client_id"] # NULL /\ ctx.str["program_id"] # NULL
  /\ failAt \in 0 .. n
  /\ liveNodes + added <= MaxHeaderNodes
  /\ liveNodes' = liveNodes + added
  /\ ctx' = IF failAt # 0 THEN ctx
            ELSE [ctx EXCEPT !.headers = n,
                             !.response = IF out = "fail" THEN ctx.response
                                          ELSE DynAdd(ctx.response, <<out>>,
                                                      BodySize[out], ResponseLimit)]
  /\ UNCHANGED liveStrings

\* Mutant: the old string is not freed before the new one is stored.
SetOptNoFree(opt, v, ok) ==
  /\ opt \in StrOptions
  /\ ctx' = [CtxOf EXCEPT !.str[opt] = IF ok THEN v ELSE NULL]
  /\ liveStrings' = liveStrings + (IF ok THEN 1 ELSE 0)
  /\ UNCHANGED liveNodes

(***************************************************************************)
(* curl_easy_setopt_validation (lines 106-171) for a string option: the   *)
(* old value is freed and the strdup of v stored, which is NULL when      *)
(* strdup fails (CURLE_OUT_OF_MEMORY).                                     *)
(***************************************************************************)
SetOpt(opt, v, ok) ==
  /\ opt \in StrOptions
  /\ ctx' = [CtxOf EXCEPT !.str[opt] = IF ok THEN v ELSE NULL]
  /\ liveStrings' = liveStrings - (IF CtxOf.str[opt] # NULL THEN 1 ELSE 0)
                    + (IF ok THEN 1 ELSE 0)
  /\ UNCHANGED liveNodes

\* Lines 165-167: any other option returns CURLE_UNKNOWN_OPTION, after the
\* context has been created.
SetOptUnknown ==
  /\ ctx = NoCtx
  /\ ctx' = NewContext
  /\ UNCHANGED <<liveStrings, liveNodes>>

(***************************************************************************)
(* curl_easy_perform_validation (lines 235-266) past its argument checks: *)
(* setup_validation_headers (lines 173-219) appends 4 headers, 5 with a   *)
(* program id type.  An append that fails returns NULL and the list built *)
(* so far is lost: "headers" is already NULL when it is freed.  On        *)
(* success ctx->headers is overwritten.  Then curl_easy_perform runs, and  *)
(* validation_write_callback (lines 221-233) adds the body to the response *)
(* dynbuf, which is never reset between performs.                         *)
(***************************************************************************)
Perform(failAt, out) ==
  LET n == IF ctx.str["program_id_type"] # NULL THEN 5 ELSE 4
      added == IF failAt = 0 THEN n ELSE failAt - 1
  IN
  /\ ctx # NoCtx
  /\ ctx.str["endpoint_url"] # NULL /\ ctx.str["payload"] # NULL
  /\ ctx.str["client_id"] # NULL /\ ctx.str["program_id"] # NULL
  /\ failAt \in 0 .. n
  /\ liveNodes + added <= MaxHeaderNodes
  /\ liveNodes' = liveNodes + added
  /\ ctx' = IF failAt # 0 THEN ctx
            ELSE [ctx EXCEPT !.headers = n,
                             !.response = IF out = "fail" THEN ctx.response
                                          ELSE DynAdd(ctx.response, <<out>>,
                                                      BodySize[out], ResponseLimit)]
  /\ UNCHANGED liveStrings

\* validation_context_cleanup (lines 95-104): the five option strings,
\* the header list ctx->headers names and the response dynbuf are freed.
ContextCleanup ==
  /\ liveStrings' = liveStrings - Cardinality({o \in StrOptions : ctx.str[o] # NULL})
  /\ liveNodes' = liveNodes - ctx.headers

\* curl_easy_cleanup_validation (lines 283-297): a handle with a context
\* has it cleaned up, freed and the pointer reset.
Cleanup ==
  /\ ctx # NoCtx
  /\ ContextCleanup
  /\ ctx' = NoCtx

Next ==
  \/ \E o \in StrOptions, ok \in BOOLEAN : \E v \in Values[o] : SetOpt(o, v, ok)
  \/ SetOptUnknown
  \/ \E f \in 0 .. 5, out \in Bodies \cup {"fail"} : Perform(f, out)
  \/ Cleanup

Spec == Init /\ [][Next]_vars

-----------------------------------------------------------------------------
(* Each option string the context holds was strdup'd by exactly one       *)
(* curl_easy_setopt_validation call and is freed exactly once, by the      *)
(* next set of that option or by validation_context_cleanup: the strings   *)
(* alive are exactly the non-NULL fields of the handle's context.          *)
StringsOwned ==
  liveStrings = IF ctx = NoCtx THEN 0
                ELSE Cardinality({o \in StrOptions : ctx.str[o] # NULL})

(* validation_context_cleanup frees ctx->headers with curl_slist_free_all  *)
(* (line 102) as the owner of the header list: every curl_slist node this *)
(* API allocated is in the list ctx->headers names.                        *)
HeadersOwned ==
  liveNodes = IF ctx = NoCtx THEN 0 ELSE ctx.headers

(* The payload the handle holds for curl_easy_perform_validation to POST   *)
(* is a JSON text that means what the caller's request says: whenever one  *)
(* is set, json_escape_string inverts to its input for every explored     *)
(* string (quotes, backslashes and control characters escaped, \u codes    *)
(* in hex) ...                                                            *)
EscapeRoundTrip == ctx.str["payload"] # NULL => EscapeInverts

(* ... and the account, entity and CEO payroll builders put every         *)
(* template add in the payload and each request field, escaped, under its *)
(* own JSON key, or the template's default for an empty field.             *)
PayloadCarriesFields == ctx.str["payload"] # NULL => BuildersCarryFields
=============================================================================
