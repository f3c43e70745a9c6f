----------------------------- MODULE ConfigStore -----------------------------
(***************************************************************************)
(* The global validation_config_t of lib/validation_enhanced.c, its        *)
(* replacement by validation_set_config, its reads by                      *)
(* curl_validation_enhanced and the configuration half of                  *)
(* validation_cleanup.                                                     *)
(*                                                                         *)
(* The scalar fields are a record.  The three strings (base_url,           *)
(* client_cert_path, client_key_path) are tracked by who owns the memory   *)
(* they point to: the string literal of the static initializer, NULL, a    *)
(* strdup'ed heap copy, or memory already freed.  'fault' is a history of *)
(* the undefined behaviour a call performed on them.                       *)
(***************************************************************************)
EXTENDS Integers

CONSTANTS
  RetryChoices     \* max_retries values a caller may configure

StringFields == {"base_url", "client_cert_path", "client_key_path"}
Ownership == {"literal", "null", "heap", "freed"}
Faults == {"invalid_free", "double_free", "use_after_free"}

\* The scalar part of a validation_config_t a caller may pass.
Configs == [max_retries : RetryChoices, enable_caching : BOOLEAN,
            enable_metrics : BOOLEAN, enable_connection_pooling : BOOLEAN]

VARIABLES
  config,          \* the scalar fields of global_config
  strs,            \* strs[f]: what global_config.f points to
  fault            \* history: undefined behaviour performed so far

configVars == <<config, strs, fault>>

ConfigTypeOK ==
  /\ config \in [max_retries : RetryChoices \cup {3}, enable_caching : BOOLEAN,
                 enable_metrics : BOOLEAN, enable_connection_pooling : BOOLEAN]
  /\ strs \in [StringFields -> Ownership]
  /\ fault \subseteq Faults

\* The static initializer: base_url a literal, no certificate, every
\* feature on, max_retries = 3.
ConfigInit ==
  /\ config = [max_retries |-> 3, enable_caching |-> TRUE,
               enable_metrics |-> TRUE, enable_connection_pooling |-> TRUE]
  /\ strs = [f \in StringFields |->
               IF f = "base_url" THEN "literal" ELSE "null"]
  /\ fault = {}

\* What free(p) does to memory owned as o.
FreeFault(o) == CASE o = "literal" -> {"invalid_free"}
                  [] o = "freed"   -> {"double_free"}
                  [] OTHER         -> {}

(***************************************************************************)
(* validation_set_config(config): each string field the new configuration *)
(* carries (non-NULL, the set 'given') frees the old one and is strdup'ed; *)
(* a NULL field leaves the old pointer; the scalar fields are copied.      *)
(***************************************************************************)
SetConfig(c, given) ==
  /\ config' = c
  /\ strs' = [f \in StringFields |-> IF f \in given THEN "heap" ELSE strs[f]]
  /\ fault' = fault \cup UNION {FreeFault(strs[f]) : f \in given}

(***************************************************************************)
(* The configuration half of validation_cleanup: free the three strings    *)
(* and leave the pointers as they were (not set to NULL).                  *)
(***************************************************************************)
ConfigCleanup ==
  /\ strs' = [f \in StringFields |-> IF strs[f] = "null" THEN "null" ELSE "freed"]
  /\ fault' = fault \cup UNION {FreeFault(strs[f]) : f \in StringFields}
  /\ UNCHANGED config

(***************************************************************************)
(* curl_validation_enhanced building the request: snprintf reads base_url  *)
(* and CURLOPT_SSLCERT/SSLKEY are set from the cert and key paths when     *)
(* they are non-NULL.                                                      *)
(***************************************************************************)
ReadFault == IF \E f \in StringFields : strs[f] = "freed"
               THEN {"use_after_free"} ELSE {}

ConfigRead ==
  /\ fault' = fault \cup ReadFault
  /\ UNCHANGED <<config, strs>>

ConfigNext ==
  \/ \E c \in Configs, given \in SUBSET StringFields : SetConfig(c, given)
  \/ ConfigCleanup
  \/ ConfigRead

ConfigSpec == ConfigInit /\ [][ConfigNext]_configVars

-----------------------------------------------------------------------------
(* The configuration calls never free memory they do not own nor read      *)
(* memory they freed: validation_set_config, validation_cleanup and the    *)
(* request set-up perform no undefined behaviour on global_config's        *)
(* strings, in any order a program calls them.                             *)
ConfigMemorySafe == fault = {}
=============================================================================
